---- MODULE Spec2Model ----
(***************************************************************************)
(* A model of the HDFS-lite distributed file system: the NameNode          *)
(* (src/namenode.py), the DataNode (src/datanode.py) and the client        *)
(* (src/client.py).                                                         *)
(*                                                                         *)
(* The clock `now` stands for time.time() in units of 15 seconds, so the   *)
(* liveness timeout of 30 seconds is 2 units.  The NameNode is configured  *)
(* with a chunk size of 2 bytes and a replication factor of 2.             *)
(* FileMetadata.created_at, a wall-clock stamp that only list_files        *)
(* formats, is left out.                                                    *)
(*                                                                         *)
(* Spec           the NameNode's file index and registry under arbitrary   *)
(*                requests, the heartbeat monitor and the clock            *)
(* SpecPlacement  the registry and the placement of upload_init, three     *)
(*                nodes                                                     *)
(* SpecClient     DataNode processes, one uploading and one downloading    *)
(*                client, the NameNode, the heartbeat monitor, the clock    *)
(***************************************************************************)
EXTENDS Integers, Sequences, FiniteSets, TLC

\* ------------------------------------------------------------------ bounds
ChunkSize == 2
ReplicationFactor == 2
Timeout == 2
MaxTime == 2
MaxFileLen == 3
MaxSpace == 1
MaxListLen == 2
MaxUploads == 1

Nodes == {"dn1", "dn2", "dn3"}
FileNodes == {"dn1", "dn2"}
Names == {"f"}

VARIABLES
    datanodes,      \* NameNode.datanodes: node_id -> DataNodeInfo
    datanodes_keys, \* insertion order of the keys of NameNode.datanodes
    files,          \* NameNode.files: filename -> FileMetadata
    now,            \* time.time()
    monitor,        \* the heartbeat_monitor thread: its position and dead_nodes
    resp,           \* the response on the wire of the request handled last
    dn,             \* the DataNode processes: node_id -> DataNode
    upl,            \* the client running upload_file
    dl,             \* the client running download_file
    deleted,        \* history: the names deleted and not uploaded since
    files_lock,     \* NameNode.files_lock: "free" or the thread holding it
    handlers,       \* the NameNode's handle_client threads
    upl2,           \* a second client running upload_file
    conn,           \* the connection of a client to a DataNode, both ends
    boot,           \* history: per DataNode, what its last start loaded and what changed since
    locking,        \* the two mutexes of the NameNode and the position of each of its threads
    rw,             \* two handler threads of one DataNode: a store_chunk and a retrieve_chunk
    report          \* what replication_manager printed in its last run, and the index it saw

vars == <<datanodes, datanodes_keys, files, now, monitor, resp, dn, upl, dl,
          deleted, files_lock, handlers, upl2, conn, boot, locking, rw, report>>

\* ----------------------------------------------------------------- helpers
Contains(s, x) == \E i \in 1..Len(s) : s[i] = x

\* list.remove(x): the first occurrence of x is removed
RECURSIVE ListRemove(_, _)
ListRemove(s, x) ==
    IF s = <<>> THEN <<>>
    ELSE IF Head(s) = x THEN Tail(s)
    ELSE <<Head(s)>> \o ListRemove(Tail(s), x)

HostOf(n) == "localhost"
PortOf(n) == CASE n = "dn1" -> 8001 [] n = "dn2" -> 8002 [] OTHER -> 8003

NoResp == [cmd |-> "none"]

\* ------------------------------------------------------------ DataNodeInfo
DataNodeInfo(node_id, host, port) ==
    [node_id |-> node_id, host |-> host, port |-> port,
     last_heartbeat |-> now, chunks |-> {},
     available_space |-> 0, total_space |-> 0, is_alive |-> TRUE]

\* mutant: the heartbeat refreshes the record but leaves the alive bit
update_heartbeat_KeepBit(node, available_space, total_space, chunks) ==
    [node EXCEPT !.last_heartbeat = now,
                 !.available_space = available_space,
                 !.total_space = total_space,
                 !.chunks = chunks]

update_heartbeat_StaleInventory(node, available_space, total_space, chunks) ==
    [node EXCEPT !.last_heartbeat = now,
                 !.available_space = available_space,
                 !.total_space = total_space,
                 !.is_alive = TRUE]

update_heartbeat(node, available_space, total_space, chunks) ==
    [node EXCEPT !.last_heartbeat = now,
                 !.available_space = available_space,
                 !.total_space = total_space,
                 !.chunks = chunks,
                 !.is_alive = TRUE]

\* update_heartbeat with an inventory set() cannot take (a number, null, a
\* list of lists): the assignments made before set(chunks) raises TypeError
update_heartbeat_raises(node, available_space, total_space) ==
    [node EXCEPT !.last_heartbeat = now,
                 !.available_space = available_space,
                 !.total_space = total_space]

is_healthy(node) == (now - node.last_heartbeat) < Timeout

\* -------------------------------------------------------------- FileMetadata
\* mutant: add_chunk_location without its membership test
add_chunk_location_Append(chunks, chunk_id, datanode_id) ==
    LET c == IF chunk_id \in DOMAIN chunks THEN chunks
             ELSE chunks @@ (chunk_id :> <<>>)
    IN  [c EXCEPT ![chunk_id] = Append(@, datanode_id)]

\* FileMetadata.add_chunk_location on the chunks dict
add_chunk_location(chunks, chunk_id, datanode_id) ==
    LET c == IF chunk_id \in DOMAIN chunks THEN chunks
             ELSE chunks @@ (chunk_id :> <<>>)
    IN  IF Contains(c[chunk_id], datanode_id) THEN c
        ELSE [c EXCEPT ![chunk_id] = Append(@, datanode_id)]

\* FileMetadata.remove_chunk_location on the chunks dict
remove_chunk_location(chunks, chunk_id, datanode_id) ==
    IF chunk_id \in DOMAIN chunks /\ Contains(chunks[chunk_id], datanode_id)
    THEN [chunks EXCEPT ![chunk_id] = ListRemove(@, datanode_id)]
    ELSE chunks

\* the inner loop of handle_upload_complete: one chunk's datanode_ids
RECURSIVE AddLocations(_, _, _)
AddLocations(chunks, chunk_id, datanode_ids) ==
    IF datanode_ids = <<>> THEN chunks
    ELSE AddLocations(add_chunk_location(chunks, chunk_id, Head(datanode_ids)),
                      chunk_id, Tail(datanode_ids))

\* the outer loop of handle_upload_complete over the request's chunk map
RECURSIVE AddChunks(_, _, _)
AddChunks(chunks, request_chunks, todo) ==
    IF todo = {} THEN chunks
    ELSE LET k == CHOOSE x \in todo : TRUE
         IN  AddChunks(AddLocations(chunks, k, request_chunks[k]),
                       request_chunks, todo \ {k})

FileMetadata(filename, size, request_chunks) ==
    [filename |-> filename, size |-> size, chunk_size |-> ChunkSize,
     replication_factor |-> ReplicationFactor,
     chunks |-> AddChunks(<<>>, request_chunks, DOMAIN request_chunks)]

is_under_replicated(metadata) ==
    {k \in DOMAIN metadata.chunks :
        Len(metadata.chunks[k]) < metadata.replication_factor}

\* nothing printed yet; index is history: self.files as the run saw it
NoReport == [lines |-> <<>>, index |-> <<>>]

\* replication_manager, one run: a line for every file with under-replicated
\* chunks, naming them
replication_manager(index) ==
    [lines |-> [f \in {g \in DOMAIN index : is_under_replicated(index[g]) # {}} |->
                    is_under_replicated(index[f])],
     index |-> index]

\* ------------------------------------------------------------------ NameNode
NodeAddress(node) ==
    [node_id |-> node.node_id, host |-> node.host, port |-> node.port]

\* list.sort(key=available_space, reverse=True): stable, descending
RECURSIVE SortBySpace(_)
SortBySpace(s) ==
    IF Len(s) <= 1 THEN s
    ELSE LET x == s[Len(s)]
             f == SortBySpace(SubSeq(s, 1, Len(s) - 1))
             keep == {i \in 1..Len(f) :
                        datanodes[f[i]].available_space >= datanodes[x].available_space}
             n == Cardinality(keep)
         IN  SubSeq(f, 1, n) \o <<x>> \o SubSeq(f, n + 1, Len(f))

\* mutant: the placement takes every registered node, stale or not
HealthyFilter_NoCheck(node_id) == TRUE

HealthyFilter(node_id) == is_healthy(datanodes[node_id])

select_datanodes_for_chunk(count) ==
    LET healthy_nodes == SelectSeq(datanodes_keys, HealthyFilter)
        sorted == SortBySpace(healthy_nodes)
        selected == SubSeq(sorted, 1, IF count < Len(sorted) THEN count ELSE Len(sorted))
    IN  [i \in 1..Len(selected) |-> NodeAddress(datanodes[selected[i]])]

NumChunks(filesize) == (filesize + ChunkSize - 1) \div ChunkSize

\* mutant: a repeated register replaces the record
register_datanode_Overwrite(node_id, host, port) ==
    /\ datanodes' = (node_id :> DataNodeInfo(node_id, host, port)) @@ datanodes
    /\ datanodes_keys' = IF node_id \in DOMAIN datanodes THEN datanodes_keys
                         ELSE Append(datanodes_keys, node_id)
    /\ resp' = [cmd |-> "register_datanode", node_id |-> node_id,
                host |-> host, port |-> port,
                status |-> "success", message |-> "DataNode registered"]
    /\ UNCHANGED files

register_datanode(node_id, host, port) ==
    /\ IF node_id \notin DOMAIN datanodes
       THEN /\ datanodes' = datanodes @@ (node_id :> DataNodeInfo(node_id, host, port))
            /\ datanodes_keys' = Append(datanodes_keys, node_id)
            /\ resp' = [cmd |-> "register_datanode", node_id |-> node_id,
                        host |-> host, port |-> port,
                        status |-> "success", message |-> "DataNode registered"]
       ELSE /\ UNCHANGED <<datanodes, datanodes_keys>>
            /\ resp' = [cmd |-> "register_datanode", node_id |-> node_id,
                        host |-> host, port |-> port,
                        status |-> "success",
                        message |-> "DataNode already registered"]
    /\ UNCHANGED files

\* mutant: a heartbeat of an unknown node registers it
handle_heartbeat_AutoRegister(node_id, available_space, total_space, chunks) ==
    /\ IF node_id \in DOMAIN datanodes
       THEN /\ datanodes' = [datanodes EXCEPT ![node_id] =
                    update_heartbeat(@, available_space, total_space, chunks)]
            /\ UNCHANGED datanodes_keys
       ELSE /\ datanodes' = datanodes @@
                    (node_id :> update_heartbeat(
                        DataNodeInfo(node_id, "localhost", 0),
                        available_space, total_space, chunks))
            /\ datanodes_keys' = Append(datanodes_keys, node_id)
    /\ resp' = [cmd |-> "heartbeat", node_id |-> node_id,
                available_space |-> available_space,
                total_space |-> total_space, chunks |-> chunks,
                status |-> "success"]
    /\ UNCHANGED files

\* mutant: a heartbeat puts the node back into the replica list of every
\* chunk of its inventory
handle_heartbeat_Relist(node_id, available_space, total_space, chunks) ==
    /\ node_id \in DOMAIN datanodes
    /\ datanodes' = [datanodes EXCEPT ![node_id] =
            update_heartbeat(@, available_space, total_space, chunks)]
    /\ resp' = [cmd |-> "heartbeat", node_id |-> node_id,
                available_space |-> available_space,
                total_space |-> total_space, chunks |-> chunks,
                status |-> "success"]
    /\ files' = [f \in DOMAIN files |->
            [files[f] EXCEPT !.chunks =
                [k \in DOMAIN @ |->
                    IF ("chunk_" \o f \o "_" \o ToString(k)) \in chunks
                    THEN add_chunk_location(@, k, node_id)[k] ELSE @[k]]]]
    /\ UNCHANGED datanodes_keys

handle_heartbeat(node_id, available_space, total_space, chunks) ==
    /\ IF node_id \in DOMAIN datanodes
       THEN /\ datanodes' = [datanodes EXCEPT ![node_id] =
                    update_heartbeat(@, available_space, total_space, chunks)]
            /\ resp' = [cmd |-> "heartbeat", node_id |-> node_id,
                        available_space |-> available_space,
                        total_space |-> total_space, chunks |-> chunks,
                        status |-> "success"]
       ELSE /\ UNCHANGED datanodes
            /\ resp' = [cmd |-> "heartbeat", node_id |-> node_id,
                        available_space |-> available_space,
                        total_space |-> total_space, chunks |-> chunks,
                        status |-> "error", message |-> "DataNode not registered"]
    /\ UNCHANGED <<datanodes_keys, files>>

\* handle_heartbeat with an inventory that is not a list of strings; the
\* exception of update_heartbeat leaves the `with` block and handle_client
\* answers it as an error
handle_heartbeat_malformed(node_id, available_space, total_space) ==
    /\ IF node_id \in DOMAIN datanodes
       THEN /\ datanodes' = [datanodes EXCEPT ![node_id] =
                    update_heartbeat_raises(@, available_space, total_space)]
            /\ resp' = [cmd |-> "heartbeat", node_id |-> node_id,
                        status |-> "error", message |-> "TypeError"]
       ELSE /\ UNCHANGED datanodes
            /\ resp' = [cmd |-> "heartbeat", node_id |-> node_id,
                        status |-> "error", message |-> "DataNode not registered"]
    /\ UNCHANGED <<datanodes_keys, files>>

\* handle_upload_complete with no chunk map (chunks.items() raises
\* AttributeError) or with a key int() rejects (ValueError): the exception
\* leaves the function before self.files[filename] is assigned
handle_upload_complete_raises(filename, message) ==
    /\ resp' = [cmd |-> "upload_complete", filename |-> filename,
                status |-> "error", message |-> message]
    /\ UNCHANGED <<datanodes, datanodes_keys, files>>

\* handle_client: a command it does not know
unknown_command ==
    /\ resp' = [cmd |-> "unknown", status |-> "error",
                message |-> "Unknown command"]
    /\ UNCHANGED <<datanodes, datanodes_keys, files>>

InsufficientDataNodes_NoneSelected(datanodes_sel) == Len(datanodes_sel) < 1

\* handle_upload_init: the test on the selection of one chunk
InsufficientDataNodes(datanodes_sel) == Len(datanodes_sel) < ReplicationFactor

\* the response of handle_upload_init
UploadInitResponse(filename, filesize) ==
    LET num_chunks == NumChunks(filesize)
        datanodes_sel == select_datanodes_for_chunk(ReplicationFactor)
    IN  IF num_chunks > 0 /\ InsufficientDataNodes(datanodes_sel)
        THEN [cmd |-> "upload_init", filename |-> filename, filesize |-> filesize,
              status |-> "error", message |-> "Insufficient DataNodes"]
        ELSE [cmd |-> "upload_init", filename |-> filename, filesize |-> filesize,
              status |-> "success", chunk_size |-> ChunkSize,
              num_chunks |-> num_chunks,
              chunk_assignments |-> [c \in 0..(num_chunks - 1) |-> datanodes_sel]]

handle_upload_init(filename, filesize) ==
    /\ resp' = UploadInitResponse(filename, filesize)
    /\ UNCHANGED <<datanodes, datanodes_keys, files>>

\* mutant: the new record replaces the whole index
handle_upload_complete_Replace(filename, filesize, chunks) ==
    /\ files' = (filename :> FileMetadata(filename, filesize, chunks))
    /\ resp' = [cmd |-> "upload_complete", filename |-> filename,
                chunks |-> chunks, status |-> "success"]
    /\ UNCHANGED <<datanodes, datanodes_keys>>

handle_upload_complete(filename, filesize, chunks) ==
    /\ files' = (filename :> FileMetadata(filename, filesize, chunks)) @@ files
    /\ resp' = [cmd |-> "upload_complete", filename |-> filename,
                chunks |-> chunks, status |-> "success"]
    /\ UNCHANGED <<datanodes, datanodes_keys>>

\* mutant: download_init returns every registered replica, stale or not
DownloadFilter_NoHealth(node_id) == node_id \in DOMAIN datanodes

DownloadFilter(node_id) ==
    node_id \in DOMAIN datanodes /\ is_healthy(datanodes[node_id])

\* the healthy_nodes list handle_download_init builds for one chunk
HealthyLocations(datanode_ids) ==
    LET ids == SelectSeq(datanode_ids, DownloadFilter)
    IN  [i \in 1..Len(ids) |-> NodeAddress(datanodes[ids[i]])]

\* the response of handle_download_init
DownloadInitResponse(filename) ==
    IF filename \notin DOMAIN files
    THEN [cmd |-> "download_init", filename |-> filename,
          status |-> "error", message |-> "File not found"]
    ELSE LET metadata == files[filename]
             locs == [k \in DOMAIN metadata.chunks |->
                        HealthyLocations(metadata.chunks[k])]
         IN  IF \E k \in DOMAIN locs : locs[k] = <<>>
             THEN [cmd |-> "download_init", filename |-> filename,
                   status |-> "error", message |-> "No healthy DataNodes"]
             ELSE [cmd |-> "download_init", filename |-> filename,
                   status |-> "success", filesize |-> metadata.size,
                   chunk_size |-> metadata.chunk_size,
                   chunk_locations |-> locs]

handle_download_init(filename) ==
    /\ resp' = DownloadInitResponse(filename)
    /\ UNCHANGED <<datanodes, datanodes_keys, files>>

list_files ==
    /\ resp' = [cmd |-> "list_files", status |-> "success",
                files |-> {[filename |-> f, size |-> files[f].size,
                            chunks |-> Cardinality(DOMAIN files[f].chunks)] :
                           f \in DOMAIN files}]
    /\ UNCHANGED <<datanodes, datanodes_keys, files>>

\* mutant: delete_file answers success and keeps the record
delete_file_Keep(filename) ==
    /\ resp' = IF filename \notin DOMAIN files
               THEN [cmd |-> "delete_file", filename |-> filename,
                     status |-> "error", message |-> "File not found"]
               ELSE [cmd |-> "delete_file", filename |-> filename,
                     status |-> "success"]
    /\ UNCHANGED <<datanodes, datanodes_keys, files>>

delete_file(filename) ==
    /\ IF filename \notin DOMAIN files
       THEN /\ UNCHANGED files
            /\ resp' = [cmd |-> "delete_file", filename |-> filename,
                        status |-> "error", message |-> "File not found"]
       ELSE /\ files' = [f \in DOMAIN files \ {filename} |-> files[f]]
            /\ resp' = [cmd |-> "delete_file", filename |-> filename,
                        status |-> "success"]
    /\ UNCHANGED <<datanodes, datanodes_keys>>

get_file_info(filename) ==
    /\ resp' = IF filename \notin DOMAIN files
               THEN [cmd |-> "file_info", filename |-> filename,
                     status |-> "error", message |-> "File not found"]
               ELSE [cmd |-> "file_info", filename |-> filename,
                     status |-> "success", file |-> files[filename]]
    /\ UNCHANGED <<datanodes, datanodes_keys, files>>

\* DataNodeInfo.to_dict
to_dict(node) ==
    [node_id |-> node.node_id, host |-> node.host, port |-> node.port,
     last_heartbeat |-> node.last_heartbeat,
     available_space |-> node.available_space,
     total_space |-> node.total_space,
     is_alive |-> node.is_alive,
     chunk_count |-> Cardinality(node.chunks)]

\* sum(f.size for f in self.files.values())
RECURSIVE TotalSize(_)
TotalSize(S) ==
    IF S = {} THEN 0
    ELSE LET f == CHOOSE g \in S : TRUE
         IN  files[f].size + TotalSize(S \ {f})

get_cluster_status ==
    /\ resp' = [cmd |-> "cluster_status", status |-> "success",
                datanodes |-> [i \in 1..Len(datanodes_keys) |->
                                 to_dict(datanodes[datanodes_keys[i]])],
                total_files |-> Cardinality(DOMAIN files),
                total_size |-> TotalSize(DOMAIN files)]
    /\ UNCHANGED <<datanodes, datanodes_keys, files>>

\* mutant: no node is ever found stale
is_stale_Never(node) == FALSE

\* heartbeat_monitor: `if not node.is_healthy()`
is_stale(node) == ~is_healthy(node)

\* heartbeat_monitor, the part under datanodes_lock: mark the stale nodes
DeadNodes ==
    SelectSeq(datanodes_keys,
              LAMBDA n : is_stale(datanodes[n]) /\ datanodes[n].is_alive)

heartbeat_monitor ==
    /\ monitor.pc = "sleep"
    /\ datanodes' = [n \in DOMAIN datanodes |->
                        IF is_stale(datanodes[n]) /\ datanodes[n].is_alive
                        THEN [datanodes[n] EXCEPT !.is_alive = FALSE]
                        ELSE datanodes[n]]
    /\ monitor' = IF DeadNodes # <<>>
                  THEN [pc |-> "failures", dead_nodes |-> DeadNodes]
                  ELSE monitor
    /\ UNCHANGED <<datanodes_keys, files, now, report, rw, locking, boot, conn, resp>>

\* remove every dead node from the replica lists of one chunks dict
RECURSIVE RemoveDead(_, _, _)
RemoveDead(chunks, chunk_id, dead_nodes) ==
    IF dead_nodes = <<>> THEN chunks
    ELSE RemoveDead(remove_chunk_location(chunks, chunk_id, Head(dead_nodes)),
                    chunk_id, Tail(dead_nodes))

RECURSIVE RemoveDeadAll(_, _, _)
RemoveDeadAll(chunks, todo, dead_nodes) ==
    IF todo = {} THEN chunks
    ELSE LET k == CHOOSE x \in todo : TRUE
         IN  RemoveDeadAll(RemoveDead(chunks, k, dead_nodes), todo \ {k}, dead_nodes)

\* mutant: the dead nodes are dropped from the registry as well
handle_node_failures_Evict ==
    /\ monitor.pc = "failures"
    /\ files' = [f \in DOMAIN files |->
                    [files[f] EXCEPT !.chunks =
                        RemoveDeadAll(@, DOMAIN @, monitor.dead_nodes)]]
    /\ monitor' = [pc |-> "sleep", dead_nodes |-> <<>>]
    /\ datanodes' = [n \in {m \in DOMAIN datanodes : ~Contains(monitor.dead_nodes, m)}
                        |-> datanodes[n]]
    /\ datanodes_keys' = SelectSeq(datanodes_keys,
                                   LAMBDA m : ~Contains(monitor.dead_nodes, m))
    /\ UNCHANGED <<now, report, rw, locking, boot, conn, resp>>

\* heartbeat_monitor, the part under files_lock
handle_node_failures ==
    /\ monitor.pc = "failures"
    /\ files' = [f \in DOMAIN files |->
                    [files[f] EXCEPT !.chunks =
                        RemoveDeadAll(@, DOMAIN @, monitor.dead_nodes)]]
    /\ monitor' = [pc |-> "sleep", dead_nodes |-> <<>>]
    /\ UNCHANGED <<datanodes, datanodes_keys, now, report, rw, locking, boot, conn, resp>>

\* time.time() advances
Tick ==
    /\ now < MaxTime
    /\ now' = now + 1
    /\ UNCHANGED <<datanodes, datanodes_keys, files, monitor, resp, conn, boot, locking, rw, report>>

\* ------------------------------------------------------------ the requests
Inventories == {{}}

\* sequences over S of length 0..n
RECURSIVE SeqsUpTo(_, _)
SeqsUpTo(S, n) ==
    IF n = 0 THEN {<<>>}
    ELSE LET shorter == SeqsUpTo(S, n - 1)
         IN  shorter \cup {Append(s, x) : s \in shorter, x \in S}

\* chunk maps of upload_complete requests: any set of chunk indexes, each with
\* the same list of node ids (in any order, with or without repetitions)
RequestChunks ==
    {[k \in K |-> l] : K \in SUBSET (0..(NumChunks(MaxFileLen) - 1)),
                       l \in SeqsUpTo(FileNodes, MaxListLen)}

\* ------------------------------------------------------------------ DataNode
\* the chunk identifier both client and DataNode use as file name on disk
ChunkId(filename, chunk_id) == "chunk_" \o filename \o "_" \o ToString(chunk_id)

\* DataNode.__init__ on an empty storage directory, the process not started
DataNode == [running |-> FALSE, storage |-> <<>>, chunks |-> {}]

Min(a, b) == IF a < b THEN a ELSE b

\* history of one DataNode process: the heartbeats sent since its start
\* (counted up to 2), the chunks load_chunks found then, and the chunk ids stored or
\* deleted since
NotBooted == [beats |-> 0, loaded |-> {}, changed |-> {}]

\* mutant: a start that forgets the storage directory
load_chunks_None(node) == {}

\* DataNode.load_chunks: every file of the storage directory named chunk_*
load_chunks(node) == DOMAIN node.storage

\* DataNode.delete_chunk: the file is removed and the chunk forgotten
delete_chunk(node, chunk_id) ==
    [node EXCEPT !.storage = [c \in DOMAIN @ \ {chunk_id} |-> @[c]],
                 !.chunks = @ \ {chunk_id}]

\* DataNode.store_chunk: the bytes received are written under chunk_id and
\* the chunk entered in self.chunks
store_chunk(node, chunk_id, chunk_data) ==
    [node EXCEPT !.storage = (chunk_id :> chunk_data) @@ @,
                 !.chunks = @ \cup {chunk_id}]

\* DataNode.retrieve_chunk as the client sees it: the bytes, or <<>> for None
retrieve_chunk(node, chunk_id) ==
    IF node.running /\ chunk_id \in node.chunks
    THEN node.storage[chunk_id]
    ELSE <<>>

\* hashlib.md5(chunk_data).hexdigest(): a digest that tells any two byte
\* strings of the model apart
md5(chunk_data) == <<"md5", chunk_data>>

\* what travels on a connection to a DataNode: JSON documents, the READY
\* token and raw bytes
JsonItem(document) == [t |-> "json", v |-> document]

TokenItem(signal) == [t |-> "token", v |-> signal]

ByteItems(bytes) == [i \in 1..Len(bytes) |-> [t |-> "byte", v |-> bytes[i]]]

BytesOf(items) == [i \in 1..Len(items) |-> items[i].v]

NoRequest == [command |-> "none", chunk_id |-> "none", chunk_size |-> 0]

NoAnswer == [status |-> "none"]

\* no connection: the client is outside store_chunk_to_datanode and
\* retrieve_chunk_from_datanode, the DataNode has no handle_client thread
ConnIdle ==
    [op |-> "none", node |-> "none", chunk_id |-> "none",
     cpc |-> "idle", spc |-> "idle",
     c2s |-> <<>>, s2c |-> <<>>, c_closed |-> "no", s_closed |-> "no",
     \* the client's locals and return value
     chunk_data |-> <<>>, c_size |-> 0, c_chunk |-> <<>>, c_remaining |-> 0,
     c_result |-> "none",
     \* download_file: the nodes listed for the chunk, the one tried, the
     \* chunk taken
     nodes |-> <<>>, idx |-> 1, chunk_retrieved |-> FALSE, chunks_data |-> <<>>,
     \* the DataNode's locals and the value its handler returned
     s_request |-> NoRequest, s_chunk |-> <<>>, s_remaining |-> 0,
     s_response |-> NoAnswer,
     \* history of the exchange
     before |-> <<>>, c_ready |-> FALSE, c_sent |-> 0, s_ready |-> FALSE,
     s_read_done |-> FALSE, s_result |-> FALSE, s_signal |-> "none",
     s_streamed |-> 0, short |-> FALSE]

\* -------------------------------------------------------------------- client
\* the local file of the n-th upload: len bytes, all different
LocalFile(n, len) == [i \in 1..len |-> 10 * n + i]

\* f.read(chunk_size), the chunk_id-th read of the local file
ReadChunk(data, chunk_size, chunk_id) ==
    SubSeq(data, chunk_id * chunk_size + 1,
           IF (chunk_id + 1) * chunk_size < Len(data)
           THEN (chunk_id + 1) * chunk_size ELSE Len(data))

RECURSIVE SortedKeys_Descending(_)
SortedKeys_Descending(S) ==
    IF S = {} THEN <<>>
    ELSE LET m == CHOOSE x \in S : \A y \in S : x >= y
         IN  <<m>> \o SortedKeys_Descending(S \ {m})

\* the keys of a dict in ascending order
RECURSIVE SortedKeys(_)
SortedKeys(S) ==
    IF S = {} THEN <<>>
    ELSE LET m == CHOOSE x \in S : \A y \in S : x <= y
         IN  <<m>> \o SortedKeys(S \ {m})

\* download_file, step 3: the chunks written in sorted key order
RECURSIVE WriteChunks(_, _)
WriteChunks(chunks_data, keys) ==
    IF keys = <<>> THEN <<>>
    ELSE chunks_data[Head(keys)] \o WriteChunks(chunks_data, Tail(keys))

Reconstructed(chunks_data) == WriteChunks(chunks_data, SortedKeys(DOMAIN chunks_data))

NoUpload == [valid |-> FALSE, filename |-> "", data |-> <<>>, clean |-> FALSE]

UploadIdle ==
    [pc |-> "idle", filename |-> "", data |-> <<>>, chunk_size |-> 0,
     num_chunks |-> 0, chunk_assignments |-> <<>>, chunk_id |-> 0, node |-> 1,
     successful_uploads |-> <<>>, uploaded_chunks |-> <<>>,
     result |-> "none", message |-> ""]

DownloadIdle ==
    [pc |-> "idle", filename |-> "", chunk_locations |-> <<>>, todo |-> <<>>,
     node |-> 1, chunks_data |-> <<>>, output |-> <<>>, result |-> "none"]

Threads == {"t1", "t2"}

\* a handle_client thread: its position, the request it received, the locals
\* of the handler it runs and the response it is about to send; existed,
\* fresh, latest and views are history
HandlerIdle ==
    [pc |-> "idle", request |-> [command |-> "none"], metadata |-> <<>>,
     pairs |-> <<>>, keys |-> {}, todo |-> {}, listing |-> {},
     response |-> NoResp,
     existed |-> FALSE, fresh |-> FALSE, latest |-> FALSE, views |-> {}]

\* --------------------------- store_chunk and retrieve_chunk on one DataNode
\* a handler thread in store_chunk (w_*) and one in retrieve_chunk (r_*) of
\* the same DataNode; r_old and r_new are history: the complete blob the file
\* held before the store_chunk in progress and the blob being stored, as they
\* were when the file was read
RwIdle ==
    [w_pc |-> "idle", w_data |-> <<>>, w_written |-> 0, w_old |-> <<>>,
     r_pc |-> "idle", r_data |-> <<>>, r_old |-> <<>>, r_new |-> <<>>,
     r_during |-> FALSE]

\* the DataNode and the chunk the two threads work on, and the blobs stored
RwNode == "dn1"

RwChunk == ChunkId("f", 0)

RwBlobs == {<<"a", "b">>, <<"c", "d">>}

\* open(chunk_path, 'wb'): the file is created, or truncated if it exists
open_wb(node, chunk_id) ==
    [node EXCEPT !.storage = (chunk_id :> <<>>) @@ @]

\* ----------------------------------------------- the NameNode's two mutexes
\* the threads of the NameNode: two handle_client threads and the three
\* supervisors NameNode.start starts
LockHandlers == {"handler1", "handler2"}

LockSupervisors == {"heartbeat_monitor", "replication_manager",
                    "statistics_reporter"}

LockThreads == LockHandlers \cup LockSupervisors

Mutexes == {"datanodes_lock", "files_lock"}

\* the commands handle_client dispatches
Commands == {"register_datanode", "heartbeat", "upload_init", "upload_complete",
             "download_init", "list_files", "delete_file", "get_file_info",
             "cluster_status"}

Acquire(l) == [do |-> "acquire", on |-> l]
Release(l) == [do |-> "release", on |-> l]
Reads(d) == [do |-> "read", on |-> d]
Writes(d) == [do |-> "write", on |-> d]

\* the `with` blocks of a function in the order it enters and leaves them, and
\* the accesses to self.datanodes and self.files in the order it makes them
WithLock(l, accesses) == <<Acquire(l)>> \o accesses \o <<Release(l)>>

\* mutant: download_init takes datanodes_lock around its reads of the
\* registry, inside its files_lock block
LockPlan_Nested(op) ==
    IF op = "download_init"
    THEN <<Acquire("files_lock"), Reads("files"), Acquire("datanodes_lock"),
           Reads("datanodes"), Release("datanodes_lock"), Release("files_lock")>>
    ELSE WithLock("files_lock", <<Reads("files")>>)

\* what each handler and each supervisor does with the two mutexes and the two
\* dictionaries, on its longest path
LockPlan(op) ==
    CASE op = "register_datanode" ->
            WithLock("datanodes_lock", <<Reads("datanodes"), Writes("datanodes")>>)
      [] op = "heartbeat" ->
            WithLock("datanodes_lock", <<Reads("datanodes"), Writes("datanodes")>>)
      [] op = "upload_init" ->
            \* select_datanodes_for_chunk, once per chunk
            WithLock("datanodes_lock", <<Reads("datanodes")>>)
            \o WithLock("datanodes_lock", <<Reads("datanodes")>>)
      [] op = "upload_complete" ->
            WithLock("files_lock", <<Writes("files")>>)
      [] op = "download_init" ->
            WithLock("files_lock", <<Reads("files"), Reads("datanodes")>>)
      [] op = "list_files" ->
            WithLock("files_lock", <<Reads("files")>>)
      [] op = "delete_file" ->
            WithLock("files_lock", <<Reads("files"), Writes("files")>>)
      [] op = "get_file_info" ->
            WithLock("files_lock", <<Reads("files")>>)
      [] op = "cluster_status" ->
            WithLock("datanodes_lock", <<Reads("datanodes")>>)
            \o WithLock("files_lock", <<Reads("files")>>)
      [] op = "heartbeat_monitor" ->
            \* the scan, then handle_node_failures
            WithLock("datanodes_lock", <<Reads("datanodes"), Writes("datanodes")>>)
            \o WithLock("files_lock", <<Reads("files"), Writes("files")>>)
      [] op = "replication_manager" ->
            WithLock("files_lock", <<Reads("files")>>)
      [] op = "statistics_reporter" ->
            WithLock("datanodes_lock", <<Reads("datanodes")>>)
            \o WithLock("files_lock", <<Reads("files")>>)

\* no mutex held, every thread between two requests or asleep
LockingIdle ==
    [owner |-> [l \in Mutexes |-> "free"],
     op |-> [t \in LockThreads |-> "idle"],
     pc |-> [t \in LockThreads |-> 1]]

\* the step thread t takes next
NextStep(t) == LockPlan(locking.op[t])[locking.pc[t]]

Init ==
    /\ datanodes = <<>>
    /\ datanodes_keys = <<>>
    /\ files = <<>>
    /\ now = 0
    /\ monitor = [pc |-> "sleep", dead_nodes |-> <<>>]
    /\ resp = NoResp
    /\ dn = [n \in FileNodes |-> DataNode]
    /\ upl = UploadIdle @@ [count |-> 0, short |-> FALSE, overlap |-> FALSE,
                            clean |-> FALSE, done |-> NoUpload]
    /\ dl = DownloadIdle @@ [tracked |-> FALSE, expect |-> <<>>]
    /\ deleted = {}
    /\ files_lock = "free"
    /\ handlers = [t \in Threads |-> HandlerIdle]
    /\ upl2 = UploadIdle @@ [count |-> 0, short |-> FALSE, overlap |-> FALSE,
                             clean |-> FALSE, done |-> NoUpload]
    /\ conn = ConnIdle
    /\ boot = [n \in FileNodes |-> NotBooted]
    /\ locking = LockingIdle
    /\ rw = RwIdle
    /\ report = NoReport

\* handle_client: one request is received, handled by A and answered
Serve(A) ==
    /\ resp = NoResp
    /\ A
    /\ deleted' = CASE resp'.cmd = "delete_file" /\ resp'.status = "success"
                        -> deleted \cup {resp'.filename}
                     [] resp'.cmd = "upload_complete" /\ resp'.status = "success"
                        -> deleted \ {resp'.filename}
                     [] OTHER -> deleted
    /\ UNCHANGED <<files_lock, handlers, upl2>>
    /\ UNCHANGED <<now, report, rw, locking, boot, conn, monitor, dn, upl, dl>>

\* handle_client: the response is sent and the connection closed
Reply ==
    /\ resp # NoResp
    /\ resp' = NoResp
    /\ UNCHANGED <<datanodes, datanodes_keys, files, now, report, rw, locking, boot, conn, monitor, dn, upl, dl,
                   deleted, files_lock, handlers, upl2>>

Register(N) == \E n \in N : Serve(register_datanode(n, HostOf(n), PortOf(n)))

Heartbeat(N, A) ==
    \E n \in N, a \in A, inv \in Inventories :
        Serve(handle_heartbeat(n, a, MaxSpace, inv))

UploadInit ==
    \E f \in Names, size \in 0..MaxFileLen : Serve(handle_upload_init(f, size))

UploadComplete ==
    \E f \in Names, size \in 0..MaxFileLen, c \in RequestChunks :
        Serve(handle_upload_complete(f, size, c))

DownloadInit == \E f \in Names : Serve(handle_download_init(f))

ListFiles == Serve(list_files)

DeleteFile == \E f \in Names : Serve(delete_file(f))

FileInfo == \E f \in Names : Serve(get_file_info(f))

ClusterStatus == Serve(get_cluster_status)

\* upload_complete requests for a file of MaxFileLen bytes that name every
\* chunk of it
UploadCompleteWhole ==
    \E f \in Names :
        \E c \in {rc \in RequestChunks :
                    DOMAIN rc = 0..(NumChunks(MaxFileLen) - 1)} :
            Serve(handle_upload_complete(f, MaxFileLen, c))

HeartbeatMonitor ==
    resp = NoResp /\ heartbeat_monitor /\ UNCHANGED <<dn, upl, dl, deleted, files_lock, handlers, upl2>>

HandleNodeFailures ==
    resp = NoResp /\ handle_node_failures /\ UNCHANGED <<dn, upl, dl, deleted, files_lock, handlers, upl2>>

TimePasses == resp = NoResp /\ Tick /\ UNCHANGED <<dn, upl, dl, deleted, files_lock, handlers, upl2>>

\* the NameNode's file index under arbitrary requests
Next ==
    \/ Register(FileNodes)
    \/ Heartbeat(FileNodes, {MaxSpace})
    \/ UploadComplete
    \/ DownloadInit
    \/ ListFiles
    \/ DeleteFile
    \/ FileInfo
    \/ Reply
    \/ HeartbeatMonitor
    \/ HandleNodeFailures
    \/ TimePasses

Spec == Init /\ [][Next]_vars

\* the NameNode's registry and placement under arbitrary requests
NextPlacement ==
    \/ Register(Nodes)
    \/ Heartbeat(Nodes, 0..MaxSpace)
    \/ UploadInit
    \/ Reply
    \/ HeartbeatMonitor
    \/ HandleNodeFailures
    \/ TimePasses

SpecPlacement == Init /\ [][NextPlacement]_vars

\* the addresses and reports that register and heartbeat requests may carry
Hosts == {"localhost", "10.0.0.2"}

Ports == {8001, 8002}

Reports == {{}, {"chunk_f_0"}}

RegisterAny ==
    \E n \in FileNodes, h \in Hosts, p \in Ports : Serve(register_datanode(n, h, p))

HeartbeatAny ==
    \E n \in FileNodes, a \in 0..MaxSpace, t \in MaxSpace..(MaxSpace + 1),
       inv \in Reports :
        Serve(handle_heartbeat(n, a, t, inv))

\* the NameNode's registry under arbitrary requests; the file index stays empty
NextRegistry ==
    \/ RegisterAny
    \/ HeartbeatAny
    \/ UploadInit
    \/ DownloadInit
    \/ ListFiles
    \/ DeleteFile
    \/ FileInfo
    \/ Reply
    \/ HeartbeatMonitor
    \/ HandleNodeFailures
    \/ TimePasses

SpecRegistry == Init /\ [][NextRegistry]_vars


\* ------------------------------------------- handler threads and files_lock
\* the chunk maps the threads' upload_complete requests carry
ThreadChunks ==
    {[k \in K |-> l] : K \in SUBSET (0..(NumChunks(MaxFileLen) - 1)),
                       l \in SeqsUpTo(FileNodes, 1)}

ThreadRequests ==
    {[command |-> "upload_complete", filename |-> f, filesize |-> size,
      chunks |-> c] :
        f \in Names, size \in (MaxFileLen - 1)..MaxFileLen, c \in ThreadChunks}
    \cup {[command |-> "list_files"]}
    \cup {[command |-> "delete_file", filename |-> f] : f \in Names}

\* what list_files reports of a file index
Listing(index) ==
    {[filename |-> f, size |-> index[f].size,
      chunks |-> Cardinality(DOMAIN index[f].chunks)] : f \in DOMAIN index}

\* chunks.items() of an upload_complete request, flattened: the pairs of
\* chunk index and node id in the order the two loops visit them
RECURSIVE PairsOf(_, _)
PairsOf(chunks, keys) ==
    IF keys = <<>> THEN <<>>
    ELSE [i \in 1..Len(chunks[Head(keys)]) |-> <<Head(keys), chunks[Head(keys)][i]>>]
         \o PairsOf(chunks, Tail(keys))

\* history: the file index changed to index while list_files requests were
\* in flight
Noted(index) ==
    [t \in Threads |->
        IF /\ handlers[t].request.command = "list_files"
           /\ handlers[t].pc \notin {"idle", "done"}
        THEN [handlers[t] EXCEPT !.views = @ \cup {Listing(index)}]
        ELSE handlers[t]]

\* history: thread o wrote the record of name last, and the delete_file
\* requests for name have an upload_complete between them
Latest(h, o, name) ==
    [t \in Threads |->
        IF t = o THEN [h[t] EXCEPT !.latest = TRUE]
        ELSE IF /\ h[t].request.command = "upload_complete"
                /\ h[t].request.filename = name
        THEN [h[t] EXCEPT !.latest = FALSE]
        ELSE IF /\ h[t].request.command = "delete_file"
                /\ h[t].request.filename = name
        THEN [h[t] EXCEPT !.fresh = FALSE]
        ELSE h[t]]

\* history: the record of name is gone
Gone(h, name) ==
    [t \in Threads |->
        IF /\ h[t].request.command = "upload_complete"
           /\ h[t].request.filename = name
        THEN [h[t] EXCEPT !.latest = FALSE]
        ELSE h[t]]

\* handle_client: a request is received on a new connection
Accept(t) ==
    /\ handlers[t].pc = "idle"
    /\ \E r \in ThreadRequests :
          handlers' = [handlers EXCEPT ![t] =
              [HandlerIdle EXCEPT
                  !.pc = "lock",
                  !.request = r,
                  !.existed = r.command = "delete_file" /\ r.filename \in DOMAIN files,
                  !.fresh = r.command = "delete_file",
                  !.views = IF r.command = "list_files"
                            THEN {Listing(files)} ELSE {}]]
    /\ UNCHANGED <<datanodes, datanodes_keys, files, now, report, rw, locking, boot, conn, monitor, resp, dn, upl,
                   dl, deleted, files_lock, upl2>>

\* mutant: the lock is taken whoever holds it
AcquireFilesLock_NoExclusion(t) ==
    /\ handlers[t].pc = "lock"
    /\ files_lock' = t
    /\ handlers' = [handlers EXCEPT ![t] =
          [@ EXCEPT !.pc = CASE handlers[t].request.command = "upload_complete" -> "create"
                            [] handlers[t].request.command = "list_files" -> "iterate"
                            [] handlers[t].request.command = "delete_file" -> "delete",
                    !.keys = DOMAIN files,
                    !.todo = DOMAIN files]]
    /\ UNCHANGED <<datanodes, datanodes_keys, files, now, report, rw, locking, boot, conn, monitor, resp, dn, upl,
                   dl, deleted, upl2>>

\* with self.files_lock: in handle_upload_complete, list_files, delete_file;
\* list_files starts its iteration over self.files
AcquireFilesLock(t) ==
    /\ handlers[t].pc = "lock"
    /\ files_lock = "free"
    /\ files_lock' = t
    /\ handlers' = [handlers EXCEPT ![t] =
          [@ EXCEPT !.pc = CASE handlers[t].request.command = "upload_complete" -> "create"
                            [] handlers[t].request.command = "list_files" -> "iterate"
                            [] handlers[t].request.command = "delete_file" -> "delete",
                    !.keys = DOMAIN files,
                    !.todo = DOMAIN files]]
    /\ UNCHANGED <<datanodes, datanodes_keys, files, now, report, rw, locking, boot, conn, monitor, resp, dn, upl,
                   dl, deleted, upl2>>

\* handle_upload_complete: metadata = FileMetadata(...)
UploadCompleteCreate(t) ==
    /\ handlers[t].pc = "create"
    /\ LET r == handlers[t].request
           pairs == PairsOf(r.chunks, SortedKeys(DOMAIN r.chunks))
       IN  handlers' = [handlers EXCEPT ![t] =
              [@ EXCEPT !.metadata = FileMetadata(r.filename, r.filesize, <<>>),
                        !.pairs = pairs,
                        !.pc = IF pairs = <<>> THEN "install" ELSE "add"]]
    /\ UNCHANGED <<datanodes, datanodes_keys, files, now, report, rw, locking, boot, conn, monitor, resp, dn, upl,
                   dl, deleted, files_lock, upl2>>

\* handle_upload_complete: one metadata.add_chunk_location(chunk_id, datanode_id)
UploadCompleteAdd(t) ==
    /\ handlers[t].pc = "add"
    /\ LET pair == Head(handlers[t].pairs)
       IN  handlers' = [handlers EXCEPT ![t] =
              [@ EXCEPT !.metadata.chunks = add_chunk_location(@, pair[1], pair[2]),
                        !.pairs = Tail(@),
                        !.pc = IF Tail(handlers[t].pairs) = <<>>
                               THEN "install" ELSE "add"]]
    /\ UNCHANGED <<datanodes, datanodes_keys, files, now, report, rw, locking, boot, conn, monitor, resp, dn, upl,
                   dl, deleted, files_lock, upl2>>

\* mutant: the new chunk map is laid over the one the name had
InstalledRecord_Merge(t) ==
    IF handlers[t].request.filename \notin DOMAIN files THEN handlers[t].metadata
    ELSE [handlers[t].metadata EXCEPT
            !.chunks = @ @@ files[handlers[t].request.filename].chunks]

\* mutant: the record is installed before its chunk map is complete
InstalledRecord_First(t) ==
    [handlers[t].metadata EXCEPT !.chunks =
        [k \in {c \in DOMAIN @ : \A d \in DOMAIN @ : c <= d} |-> @[k]]]

\* handle_upload_complete: the object assigned to self.files[filename]
InstalledRecord(t) == handlers[t].metadata

\* handle_upload_complete: self.files[filename] = metadata
UploadCompleteInstall(t) ==
    /\ handlers[t].pc = "install"
    /\ LET name == handlers[t].request.filename
           index == (name :> InstalledRecord(t)) @@ files
       IN  /\ files' = index
           /\ handlers' = [Latest(Noted(index), t, name) EXCEPT ![t].pc = "return",
                  ![t].response = [cmd |-> "upload_complete", filename |-> name,
                                   status |-> "success"]]
    /\ UNCHANGED <<datanodes, datanodes_keys, now, report, rw, locking, boot, conn, monitor, resp, dn, upl, dl,
                   deleted, files_lock, upl2>>

\* list_files: one turn of the loop over self.files.items(); a dict whose
\* keys changed since the loop began raises RuntimeError, which handle_client
\* answers with an error
ListFilesIterate(t) ==
    /\ handlers[t].pc = "iterate"
    /\ handlers' = [handlers EXCEPT ![t] =
          IF DOMAIN files # @.keys
          THEN [@ EXCEPT !.pc = "return",
                         !.response = [cmd |-> "list_files", status |-> "error",
                                       message |-> "dictionary changed size during iteration"]]
          ELSE IF @.todo = {}
          THEN [@ EXCEPT !.pc = "return",
                         !.response = [cmd |-> "list_files", status |-> "success",
                                       files |-> handlers[t].listing]]
          ELSE LET f == CHOOSE x \in handlers[t].todo : TRUE
               IN  [@ EXCEPT !.todo = @ \ {f},
                             !.listing = @ \cup Listing([x \in {f} |-> files[x]])]]
    /\ UNCHANGED <<datanodes, datanodes_keys, files, now, report, rw, locking, boot, conn, monitor, resp, dn, upl,
                   dl, deleted, files_lock, upl2>>

\* delete_file: if filename not in self.files
DeleteFileTest(t) ==
    /\ handlers[t].pc = "delete"
    /\ LET name == handlers[t].request.filename
       IN  handlers' = [handlers EXCEPT ![t] =
              IF name \notin DOMAIN files
              THEN [@ EXCEPT !.pc = "return",
                             !.response = [cmd |-> "delete_file", filename |-> name,
                                           status |-> "error",
                                           message |-> "File not found"]]
              ELSE [@ EXCEPT !.pc = "del"]]
    /\ UNCHANGED <<datanodes, datanodes_keys, files, now, report, rw, locking, boot, conn, monitor, resp, dn, upl,
                   dl, deleted, files_lock, upl2>>

\* delete_file: del self.files[filename]; a missing key raises KeyError,
\* which handle_client answers with an error
DeleteFileDel(t) ==
    /\ handlers[t].pc = "del"
    /\ LET name == handlers[t].request.filename
       IN  IF name \notin DOMAIN files
           THEN /\ UNCHANGED files
                /\ handlers' = [handlers EXCEPT ![t].pc = "return",
                       ![t].response = [cmd |-> "delete_file", filename |-> name,
                                        status |-> "error", message |-> name]]
           ELSE LET index == [f \in DOMAIN files \ {name} |-> files[f]]
                IN  /\ files' = index
                    /\ handlers' = [Gone(Noted(index), name) EXCEPT
                           ![t].pc = "return",
                           ![t].response = [cmd |-> "delete_file", filename |-> name,
                                            status |-> "success"]]
    /\ UNCHANGED <<datanodes, datanodes_keys, now, report, rw, locking, boot, conn, monitor, resp, dn, upl, dl,
                   deleted, files_lock, upl2>>

\* the handler returns and the with block releases files_lock
Return(t) ==
    /\ handlers[t].pc = "return"
    /\ files_lock' = "free"
    /\ handlers' = [handlers EXCEPT ![t].pc = "done"]
    /\ UNCHANGED <<datanodes, datanodes_keys, files, now, report, rw, locking, boot, conn, monitor, resp, dn, upl,
                   dl, deleted, upl2>>

\* handle_client: the response is sent and the connection closed
HandlerReply(t) ==
    /\ handlers[t].pc = "done"
    /\ handlers' = [handlers EXCEPT ![t] = HandlerIdle]
    /\ UNCHANGED <<datanodes, datanodes_keys, files, now, report, rw, locking, boot, conn, monitor, resp, dn, upl,
                   dl, deleted, files_lock, upl2>>

NextThreads ==
    \E t \in Threads :
        \/ Accept(t)
        \/ AcquireFilesLock(t)
        \/ UploadCompleteCreate(t)
        \/ UploadCompleteAdd(t)
        \/ UploadCompleteInstall(t)
        \/ ListFilesIterate(t)
        \/ DeleteFileTest(t)
        \/ DeleteFileDel(t)
        \/ Return(t)
        \/ HandlerReply(t)

SpecThreads == Init /\ [][NextThreads]_vars

\* ------------------------------------------------ DataNodes and the clients
\* the registered nodes that pass is_healthy
LiveCount == Cardinality({n \in DOMAIN datanodes : is_healthy(datanodes[n])})

\* history: a node stopped or went stale, or the name was uploaded again, so
\* the last upload and the running download are no longer undisturbed; an
\* upload is undisturbed from the start only if its assigned nodes run and
\* none of them is in a dead_nodes list the monitor has still to handle
NotedUpload(u) == [u EXCEPT !.clean = FALSE, !.done.clean = FALSE]

NotedDownload(d) == [d EXCEPT !.tracked = FALSE]

\* DataNode.__init__ and start: load_chunks, register_with_namenode
DataNodeStarts(n) ==
    /\ resp = NoResp
    /\ ~dn[n].running
    /\ register_datanode(n, HostOf(n), PortOf(n))
    /\ dn' = [dn EXCEPT ![n].running = TRUE, ![n].chunks = load_chunks(dn[n])]
    /\ UNCHANGED <<now, report, rw, locking, conn, monitor, upl, dl, deleted, files_lock, handlers, upl2>>

DataNodeStart(n) == DataNodeStarts(n) /\ UNCHANGED boot

\* the same with the history of the process begun
DataNodeRestart(n) ==
    /\ DataNodeStarts(n)
    /\ boot' = [boot EXCEPT ![n] = [beats |-> 0, loaded |-> load_chunks(dn[n]),
                                    changed |-> {}]]

\* DataNode.heartbeat_loop, one iteration
DataNodeBeats(n) ==
    /\ resp = NoResp
    /\ dn[n].running
    /\ handle_heartbeat(n, MaxSpace, MaxSpace, dn[n].chunks)
    /\ UNCHANGED <<now, report, rw, locking, conn, monitor, dn, upl, dl, deleted, files_lock, handlers, upl2>>

DataNodeHeartbeat(n) == DataNodeBeats(n) /\ UNCHANGED boot

\* the same with the heartbeat counted in the history of the process
DataNodeHeartbeatCounted(n) ==
    /\ DataNodeBeats(n)
    /\ boot' = [boot EXCEPT ![n].beats = Min(@ + 1, 2)]

\* DataNode.send_to_namenode: the response is read
DataNodeReply ==
    /\ resp.cmd \in {"register_datanode", "heartbeat"}
    /\ Reply

\* the DataNode process is killed; its storage directory stays
DataNodeStop(n) ==
    /\ resp = NoResp
    /\ dn[n].running
    /\ dn' = [dn EXCEPT ![n].running = FALSE]
    /\ upl' = NotedUpload(upl)
    /\ dl' = NotedDownload(dl)
    /\ UNCHANGED <<datanodes, datanodes_keys, files, now, report, rw, locking, boot, conn, monitor, resp, deleted, files_lock, handlers, upl2>>

\* upload_file, step 1: upload_init is sent
UploadStartBy(u, u_next, other, names, n) ==
    /\ resp = NoResp
    /\ u.pc = "idle"
    /\ dl.pc = "idle"
    /\ u.count < MaxUploads
    /\ \E f \in names, len \in 0..MaxFileLen :
          LET data == LocalFile(n, len)
          IN  /\ handle_upload_init(f, Len(data))
              /\ u_next = [UploadIdle EXCEPT !.pc = "upload_init",
                                           !.filename = f, !.data = data]
                        @@ [count |-> u.count + 1,
                            short |-> LiveCount < ReplicationFactor,
                            overlap |-> other.pc # "idle",
                            clean |-> FALSE,
                            done |-> IF u.done.filename = f
                                     THEN [u.done EXCEPT !.clean = FALSE]
                                     ELSE u.done]
              /\ dl' = IF dl.filename = f THEN NotedDownload(dl) ELSE dl
    /\ UNCHANGED <<now, report, rw, locking, boot, conn, monitor, dn, deleted, files_lock,
                   handlers>>

\* upload_file: the response of upload_init is read
UploadInitRecvBy(u, u_next) ==
    /\ u.pc = "upload_init"
    /\ resp.cmd = "upload_init"
    /\ u_next = IF resp.status # "success"
              THEN [u EXCEPT !.pc = "idle", !.result = "failed",
                               !.message = resp.message]
              ELSE [u EXCEPT
                      !.chunk_size = resp.chunk_size,
                      !.num_chunks = resp.num_chunks,
                      !.chunk_assignments = resp.chunk_assignments,
                      !.pc = IF resp.num_chunks = 0 THEN "complete" ELSE "store",
                      !.clean = \A c \in DOMAIN resp.chunk_assignments :
                                  \A i \in 1..Len(resp.chunk_assignments[c]) :
                                    LET n == resp.chunk_assignments[c][i].node_id
                                    IN  /\ dn[n].running
                                        /\ ~Contains(monitor.dead_nodes, n)]
    /\ resp' = NoResp
    /\ UNCHANGED <<datanodes, datanodes_keys, files, now, report, rw, locking, boot, conn, monitor, dn, dl, deleted, files_lock,
                   handlers>>

\* mutant: a chunk no node acknowledged does not end the upload
Acknowledged_Always(successful_uploads) == TRUE

\* upload_file: `if successful_uploads:` after the nodes of a chunk were tried
Acknowledged(successful_uploads) == successful_uploads # <<>>

\* upload_file, step 2: store_chunk_to_datanode of the current chunk on the
\* next assigned node; after the last node the chunk is recorded or the
\* upload given up
StoreChunkBy(u, u_next) ==
    /\ resp = NoResp
    /\ u.pc = "store"
    /\ LET datanodes_c == IF u.chunk_id \in DOMAIN u.chunk_assignments
                          THEN u.chunk_assignments[u.chunk_id] ELSE <<>>
           chunk_data == ReadChunk(u.data, u.chunk_size, u.chunk_id)
           chunk_id_str == ChunkId(u.filename, u.chunk_id)
           target == datanodes_c[u.node].node_id
           stored == dn[target].running
           successful_uploads == IF stored THEN Append(u.successful_uploads, target)
                                 ELSE u.successful_uploads
       IN  /\ u.node <= Len(datanodes_c)
           /\ dn' = IF stored
                    THEN [dn EXCEPT ![target] = store_chunk(@, chunk_id_str, chunk_data)]
                    ELSE dn
           /\ u_next = IF u.node < Len(datanodes_c)
                     THEN [u EXCEPT !.node = @ + 1,
                                      !.successful_uploads = successful_uploads]
                     ELSE IF Acknowledged(successful_uploads)
                     THEN [u EXCEPT
                             !.uploaded_chunks = @ @@ (u.chunk_id :> successful_uploads),
                             !.successful_uploads = <<>>,
                             !.node = 1,
                             !.chunk_id = @ + 1,
                             !.pc = IF u.chunk_id + 1 = u.num_chunks
                                    THEN "complete" ELSE "store"]
                     ELSE [u EXCEPT !.pc = "idle", !.result = "failed",
                                      !.message = "store failed",
                                      !.chunk_size = 0, !.num_chunks = 0,
                                      !.chunk_assignments = <<>>, !.chunk_id = 0,
                                      !.node = 1, !.successful_uploads = <<>>,
                                      !.uploaded_chunks = <<>>]
    /\ UNCHANGED <<datanodes, datanodes_keys, files, now, report, rw, locking, boot, conn, monitor, resp, dl, deleted, files_lock,
                   handlers>>

\* upload_file, step 3: upload_complete is sent
UploadCompleteSendBy(u, u_next) ==
    /\ resp = NoResp
    /\ u.pc = "complete"
    /\ handle_upload_complete(u.filename, Len(u.data), u.uploaded_chunks)
    /\ u_next = [u EXCEPT !.pc = "upload_complete"]
    /\ deleted' = deleted \ {u.filename}
    /\ UNCHANGED <<files_lock, handlers>>
    /\ UNCHANGED <<now, report, rw, locking, boot, conn, monitor, dn, dl>>

\* upload_file: the response of upload_complete is read
UploadCompleteRecvBy(u, u_next) ==
    /\ u.pc = "upload_complete"
    /\ resp.cmd = "upload_complete"
    /\ u_next = [UploadIdle EXCEPT
                 !.filename = u.filename, !.data = u.data,
                 !.result = IF resp.status = "success" THEN "success" ELSE "failed"]
              @@ [count |-> u.count, short |-> u.short,
                  overlap |-> u.overlap, clean |-> FALSE,
                  done |-> [valid |-> TRUE, filename |-> u.filename,
                            data |-> u.data,
                            clean |-> u.clean /\ resp.status = "success"]]
    /\ resp' = NoResp
    /\ UNCHANGED <<datanodes, datanodes_keys, files, now, report, rw, locking, boot, conn, monitor, dn, dl, deleted, files_lock,
                   handlers>>

\* the steps of the client upl
UploadStart ==
    UploadStartBy(upl, upl', upl2, Names, upl.count + 1) /\ UNCHANGED upl2

UploadInitRecv == UploadInitRecvBy(upl, upl') /\ UNCHANGED upl2

StoreChunk == StoreChunkBy(upl, upl') /\ UNCHANGED upl2

UploadCompleteSend == UploadCompleteSendBy(upl, upl') /\ UNCHANGED upl2

UploadCompleteRecv == UploadCompleteRecvBy(upl, upl') /\ UNCHANGED upl2

\* two clients that upload at the same time, under either of two names
TwoNames == {"f", "g"}

FirstUploadStart ==
    UploadStartBy(upl, upl', upl2, TwoNames, upl.count + 1) /\ UNCHANGED upl2

SecondUploadStart ==
    /\ UploadStartBy(upl2, upl2', upl, TwoNames, MaxUploads + upl2.count + 1)
    /\ UNCHANGED upl

SecondUploadInitRecv == UploadInitRecvBy(upl2, upl2') /\ UNCHANGED upl

SecondStoreChunk == StoreChunkBy(upl2, upl2') /\ UNCHANGED upl

SecondUploadCompleteSend == UploadCompleteSendBy(upl2, upl2') /\ UNCHANGED upl

SecondUploadCompleteRecv == UploadCompleteRecvBy(upl2, upl2') /\ UNCHANGED upl

\* download_file, step 1: download_init is sent
DownloadStart ==
    /\ resp = NoResp
    /\ dl.pc = "idle"
    /\ upl.pc = "idle"
    /\ \E f \in Names :
          /\ handle_download_init(f)
          /\ dl' = [DownloadIdle EXCEPT !.pc = "download_init", !.filename = f]
                   @@ [tracked |-> /\ upl.done.valid
                                   /\ upl.done.filename = f
                                   /\ upl.done.clean,
                       expect |-> upl.done.data]
    /\ UNCHANGED <<now, report, rw, locking, boot, conn, monitor, dn, upl, deleted, files_lock, handlers, upl2>>

\* download_file: the response of download_init is read
DownloadInitRecv ==
    /\ dl.pc = "download_init"
    /\ resp.cmd = "download_init"
    /\ dl' = IF resp.status # "success"
             THEN [dl EXCEPT !.pc = "idle", !.result = "failed"]
             ELSE [dl EXCEPT
                     !.chunk_locations = resp.chunk_locations,
                     !.todo = SortedKeys(DOMAIN resp.chunk_locations),
                     !.pc = IF DOMAIN resp.chunk_locations = {}
                            THEN "reconstruct" ELSE "retrieve"]
    /\ resp' = NoResp
    /\ UNCHANGED <<datanodes, datanodes_keys, files, now, report, rw, locking, boot, conn, monitor, dn, upl, deleted, files_lock, handlers, upl2>>

\* mutant: whatever a node returned is taken as the chunk
ChunkUsable_Any(c_result, chunk_data) == TRUE

\* download_file: `if chunk_data:`, None and the empty string being false
ChunkUsable(c_result, chunk_data) == c_result = "bytes" /\ chunk_data # <<>>

\* download_file, step 2: retrieve_chunk_from_datanode of the current chunk
\* from the next listed node
RetrieveChunk ==
    /\ resp = NoResp
    /\ dl.pc = "retrieve"
    /\ LET chunk_id == Head(dl.todo)
           datanodes_c == dl.chunk_locations[chunk_id]
           target == datanodes_c[dl.node].node_id
           chunk_data == retrieve_chunk(dn[target], ChunkId(dl.filename, chunk_id))
       IN  /\ dl.node <= Len(datanodes_c)
           /\ dl' = IF ChunkUsable("bytes", chunk_data)
                    THEN [dl EXCEPT
                            !.chunks_data = @ @@ (chunk_id :> chunk_data),
                            !.todo = Tail(@),
                            !.node = 1,
                            !.pc = IF Tail(dl.todo) = <<>>
                                   THEN "reconstruct" ELSE "retrieve"]
                    ELSE IF dl.node < Len(datanodes_c)
                    THEN [dl EXCEPT !.node = @ + 1]
                    ELSE [dl EXCEPT !.pc = "idle", !.result = "failed",
                                    !.chunk_locations = <<>>, !.todo = <<>>,
                                    !.node = 1, !.chunks_data = <<>>]
    /\ UNCHANGED <<datanodes, datanodes_keys, files, now, report, rw, locking, boot, conn, monitor, resp, dn, upl,
                   deleted, files_lock, handlers, upl2>>

\* download_file, step 3: the output file is written
Reconstruct ==
    /\ resp = NoResp
    /\ dl.pc = "reconstruct"
    /\ dl' = [dl EXCEPT !.output = Reconstructed(dl.chunks_data),
                        !.pc = "idle", !.result = "success",
                        !.chunk_locations = <<>>, !.chunks_data = <<>>]
    /\ UNCHANGED <<datanodes, datanodes_keys, files, now, report, rw, locking, boot, conn, monitor, resp, dn, upl,
                   deleted, files_lock, handlers, upl2>>

\* time.time() advances; a registered node may now fail the liveness test
ClientTimePasses ==
    /\ resp = NoResp
    /\ Tick
    /\ LET stale == \E n \in DOMAIN datanodes :
                        (now + 1) - datanodes[n].last_heartbeat >= Timeout
       IN  /\ upl' = IF stale THEN NotedUpload(upl) ELSE upl
           /\ dl' = IF stale THEN NotedDownload(dl) ELSE dl
    /\ UNCHANGED <<dn, deleted, files_lock, handlers, upl2>>

NextClient ==
    \/ \E n \in FileNodes : DataNodeStart(n)
    \/ \E n \in FileNodes : DataNodeHeartbeat(n)
    \/ \E n \in FileNodes : DataNodeStop(n)
    \/ DataNodeReply
    \/ UploadStart
    \/ UploadInitRecv
    \/ StoreChunk
    \/ UploadCompleteSend
    \/ UploadCompleteRecv
    \/ DownloadStart
    \/ DownloadInitRecv
    \/ RetrieveChunk
    \/ Reconstruct
    \/ HeartbeatMonitor
    \/ HandleNodeFailures
    \/ ClientTimePasses

SpecClient == Init /\ [][NextClient]_vars

\* the DataNode processes and the NameNode under upload_complete (of whole
\* files), download_init and cluster_status requests; the monitor thread runs again
\* and again, requests are answered and time does not stop
NextLiveness ==
    \/ \E n \in FileNodes : DataNodeStart(n)
    \/ \E n \in FileNodes : DataNodeHeartbeat(n)
    \/ \E n \in FileNodes : DataNodeStop(n)
    \/ UploadCompleteWhole
    \/ DownloadInit
    \/ ClusterStatus
    \/ Reply
    \/ HeartbeatMonitor
    \/ HandleNodeFailures
    \/ TimePasses

SpecLiveness ==
    /\ Init
    /\ [][NextLiveness]_vars
    /\ WF_vars(Reply)
    /\ SF_vars(HeartbeatMonitor)
    /\ SF_vars(HandleNodeFailures)
    /\ SF_vars(TimePasses)

\* store_chunk: READY is sent and the whole chunk received
WriterRecv ==
    /\ dn[RwNode].running
    /\ rw.w_pc = "idle"
    /\ \E d \in RwBlobs :
          rw' = [rw EXCEPT !.w_pc = "received", !.w_data = d, !.w_written = 0,
                           !.w_old = IF RwChunk \in DOMAIN dn[RwNode].storage
                                     THEN dn[RwNode].storage[RwChunk] ELSE <<>>]
    /\ UNCHANGED <<datanodes, datanodes_keys, files, now, report, conn, monitor, resp, dn,
                   upl, dl, deleted, files_lock, handlers, upl2, boot, locking>>

\* store_chunk: open(chunk_path, 'wb')
WriterOpen ==
    /\ rw.w_pc = "received"
    /\ dn' = [dn EXCEPT ![RwNode] = open_wb(@, RwChunk)]
    /\ rw' = [rw EXCEPT !.w_pc = "opened"]
    /\ UNCHANGED <<datanodes, datanodes_keys, files, now, report, conn, monitor, resp,
                   upl, dl, deleted, files_lock, handlers, upl2, boot, locking>>

\* store_chunk: f.write(chunk_data) and the close of the file put the next m
\* bytes into the file; the file is closed when all are in it
WriterWrite(m) ==
    /\ rw.w_pc = "opened"
    /\ m \in 1..(Len(rw.w_data) - rw.w_written)
    /\ LET upto == rw.w_written + m
       IN  /\ dn' = [dn EXCEPT ![RwNode].storage[RwChunk] =
                        @ \o SubSeq(rw.w_data, rw.w_written + 1, upto)]
           /\ rw' = [rw EXCEPT !.w_written = upto,
                               !.w_pc = IF upto = Len(rw.w_data)
                                        THEN "closed" ELSE "opened"]
    /\ UNCHANGED <<datanodes, datanodes_keys, files, now, report, conn, monitor, resp,
                   upl, dl, deleted, files_lock, handlers, upl2, boot, locking>>

\* store_chunk: self.chunks[chunk_id] = chunk_path, and the answer
WriterRegister ==
    /\ rw.w_pc = "closed"
    /\ dn' = [dn EXCEPT ![RwNode].chunks = @ \cup {RwChunk}]
    /\ rw' = [rw EXCEPT !.w_pc = "idle"]
    /\ UNCHANGED <<datanodes, datanodes_keys, files, now, report, conn, monitor, resp,
                   upl, dl, deleted, files_lock, handlers, upl2, boot, locking>>

\* retrieve_chunk: chunk_id is found in self.chunks
ReaderLookup ==
    /\ dn[RwNode].running
    /\ rw.r_pc = "idle"
    /\ RwChunk \in dn[RwNode].chunks
    /\ rw' = [rw EXCEPT !.r_pc = "found"]
    /\ UNCHANGED <<datanodes, datanodes_keys, files, now, report, conn, monitor, resp, dn,
                   upl, dl, deleted, files_lock, handlers, upl2, boot, locking>>

\* retrieve_chunk: open(chunk_path, 'rb') and f.read()
ReaderRead ==
    /\ rw.r_pc = "found"
    /\ LET writing == rw.w_pc \in {"opened", "closed"}
       IN  rw' = [rw EXCEPT !.r_pc = "read",
                           !.r_data = dn[RwNode].storage[RwChunk],
                           !.r_during = rw.w_pc = "opened",
                           !.r_old = IF writing THEN rw.w_old
                                     ELSE dn[RwNode].storage[RwChunk],
                           !.r_new = IF writing THEN rw.w_data
                                     ELSE dn[RwNode].storage[RwChunk]]
    /\ UNCHANGED <<datanodes, datanodes_keys, files, now, report, conn, monitor, resp, dn,
                   upl, dl, deleted, files_lock, handlers, upl2, boot, locking>>

\* retrieve_chunk: the header and, after READY, the bytes read are sent
ReaderSend ==
    /\ rw.r_pc = "read"
    /\ rw' = [rw EXCEPT !.r_pc = "idle"]
    /\ UNCHANGED <<datanodes, datanodes_keys, files, now, report, conn, monitor, resp, dn,
                   upl, dl, deleted, files_lock, handlers, upl2, boot, locking>>

\* one DataNode whose handler threads store and retrieve the same chunk
NextOverwrite ==
    \/ DataNodeStart(RwNode)
    \/ DataNodeReply
    \/ WriterRecv
    \/ WriterOpen
    \/ \E m \in 1..ChunkSize : WriterWrite(m)
    \/ WriterRegister
    \/ ReaderLookup
    \/ ReaderRead
    \/ ReaderSend

SpecOverwrite == Init /\ [][NextOverwrite]_vars

\* a handler thread receives a command, a supervisor wakes from its sleep
LockBegin(t) ==
    /\ locking.op[t] = "idle"
    /\ \E op \in (IF t \in LockHandlers THEN Commands ELSE {t}) :
          locking' = [locking EXCEPT !.op[t] = op, !.pc[t] = 1]
    /\ UNCHANGED <<datanodes, datanodes_keys, files, now, report, rw, conn, monitor, resp, dn,
                   upl, dl, deleted, files_lock, handlers, upl2, boot>>

\* thread t takes its next step: it enters a `with` block when the mutex is
\* free, leaves one, or reads or writes a dictionary; after its last step it
\* returns
LockStep(t) ==
    /\ locking.op[t] # "idle"
    /\ LET step == NextStep(t)
           last == locking.pc[t] = Len(LockPlan(locking.op[t]))
           moved == [locking EXCEPT !.pc[t] = IF last THEN 1 ELSE @ + 1,
                                    !.op[t] = IF last THEN "idle" ELSE @]
       IN  CASE step.do = "acquire" ->
                    /\ locking.owner[step.on] = "free"
                    /\ locking' = [moved EXCEPT !.owner[step.on] = t]
             [] step.do = "release" ->
                    locking' = [moved EXCEPT !.owner[step.on] = "free"]
             [] OTHER -> locking' = moved
    /\ UNCHANGED <<datanodes, datanodes_keys, files, now, report, rw, conn, monitor, resp, dn,
                   upl, dl, deleted, files_lock, handlers, upl2, boot>>

\* the threads of the NameNode and its two mutexes
NextLocks ==
    \/ \E t \in LockThreads : LockBegin(t)
    \/ \E t \in LockThreads : LockStep(t)

SpecLocks == Init /\ [][NextLocks]_vars

\* heartbeats of registered or unregistered nodes with any inventory
HeartbeatReport ==
    \E n \in FileNodes, inv \in Reports :
        Serve(handle_heartbeat(n, MaxSpace, MaxSpace, inv))

\* the file index under upload_complete and delete_file requests while nodes
\* register, report inventories, fall silent and are detected
NextInventory ==
    \/ Register(FileNodes)
    \/ HeartbeatReport
    \/ UploadCompleteWhole
    \/ DeleteFile
    \/ Reply
    \/ HeartbeatMonitor
    \/ HandleNodeFailures
    \/ TimePasses

SpecInventory == Init /\ [][NextInventory]_vars

\* replication_manager wakes and runs once
ReplicationManager ==
    /\ resp = NoResp
    /\ report' = replication_manager(files)
    /\ UNCHANGED <<datanodes, datanodes_keys, files, now, conn, monitor, resp, dn,
                   upl, dl, deleted, files_lock, handlers, upl2, boot, locking, rw>>

\* the file index under upload_complete and delete_file requests, and the
\* replication_manager
NextReplication ==
    \/ UploadComplete
    \/ DeleteFile
    \/ Reply
    \/ ReplicationManager

SpecReplication == Init /\ [][NextReplication]_vars

\* a second client uploads under the name the first client uses, once the
\* first client has begun; its local file has other bytes
SameNameUploadStart ==
    /\ upl.pc # "idle" \/ upl.done.valid
    /\ UploadStartBy(upl2, upl2', upl, Names, MaxUploads + upl2.count + 1)
    /\ UNCHANGED upl

\* a download begun when neither client is uploading
LaterDownloadStart == upl2.pc = "idle" /\ DownloadStart

\* two clients that upload under the same name, DataNodes that stop and start
\* again, and downloads between the uploads
NextSameName ==
    \/ \E n \in FileNodes : DataNodeStart(n)
    \/ \E n \in FileNodes : DataNodeStop(n)
    \/ DataNodeReply
    \/ UploadStart
    \/ UploadInitRecv
    \/ StoreChunk
    \/ UploadCompleteSend
    \/ UploadCompleteRecv
    \/ SameNameUploadStart
    \/ SecondUploadInitRecv
    \/ SecondStoreChunk
    \/ SecondUploadCompleteSend
    \/ SecondUploadCompleteRecv
    \/ LaterDownloadStart
    \/ DownloadInitRecv
    \/ RetrieveChunk
    \/ Reconstruct

SpecSameName == Init /\ [][NextSameName]_vars

\* requests that are malformed
HeartbeatMalformed ==
    \E n \in FileNodes : Serve(handle_heartbeat_malformed(n, MaxSpace, MaxSpace))

UploadCompleteMalformed ==
    \E f \in Names, m \in {"AttributeError", "ValueError"} :
        Serve(handle_upload_complete_raises(f, m))

UnknownCommand == Serve(unknown_command)

\* the NameNode under well-formed and malformed requests
NextErrors ==
    \/ Register(FileNodes)
    \/ Heartbeat(FileNodes, {MaxSpace})
    \/ HeartbeatMalformed
    \/ UploadInit
    \/ UploadCompleteWhole
    \/ UploadCompleteMalformed
    \/ DownloadInit
    \/ DeleteFile
    \/ FileInfo
    \/ UnknownCommand
    \/ Reply
    \/ HeartbeatMonitor
    \/ HandleNodeFailures
    \/ TimePasses

SpecErrors == Init /\ [][NextErrors]_vars

\* the chunk ids clients store on and delete from the DataNodes directly
StoredIds == {ChunkId("f", 0), ChunkId("f", 1)}

\* DataNode.handle_client, store_chunk: a client stores a chunk on node n
StoreChunkAt(n) ==
    /\ resp = NoResp
    /\ dn[n].running
    /\ \E c \in StoredIds :
          /\ dn' = [dn EXCEPT ![n] = store_chunk(@, c, <<"a">>)]
          /\ boot' = [boot EXCEPT ![n].changed = @ \cup {c}]
    /\ UNCHANGED <<datanodes, datanodes_keys, files, now, report, rw, locking, conn, monitor, resp, upl,
                   dl, deleted, files_lock, handlers, upl2>>

\* DataNode.handle_client, delete_chunk: a client deletes a chunk node n has
DeleteChunkAt(n) ==
    /\ resp = NoResp
    /\ dn[n].running
    /\ \E c \in dn[n].chunks :
          /\ dn' = [dn EXCEPT ![n] = delete_chunk(@, c)]
          /\ boot' = [boot EXCEPT ![n].changed = @ \cup {c}]
    /\ UNCHANGED <<datanodes, datanodes_keys, files, now, report, rw, locking, conn, monitor, resp, upl,
                   dl, deleted, files_lock, handlers, upl2>>

\* DataNode processes that are started, stopped and started again while
\* clients store and delete chunks on them
NextRestart ==
    \/ \E n \in FileNodes : DataNodeRestart(n)
    \/ \E n \in FileNodes : DataNodeHeartbeatCounted(n)
    \/ \E n \in FileNodes : DataNodeStop(n)
    \/ \E n \in FileNodes : StoreChunkAt(n)
    \/ \E n \in FileNodes : DeleteChunkAt(n)
    \/ DataNodeReply

SpecRestart == Init /\ [][NextRestart]_vars

\* two uploading clients, the DataNodes and the NameNode; no node stops and
\* no time passes
NextTwoUploads ==
    \/ \E n \in FileNodes : DataNodeStart(n)
    \/ DataNodeReply
    \/ FirstUploadStart
    \/ UploadInitRecv
    \/ StoreChunk
    \/ UploadCompleteSend
    \/ UploadCompleteRecv
    \/ SecondUploadStart
    \/ SecondUploadInitRecv
    \/ SecondStoreChunk
    \/ SecondUploadCompleteSend
    \/ SecondUploadCompleteRecv

SpecTwoUploads == Init /\ [][NextTwoUploads]_vars

\* ------------------------------------------------- client and DataNode, wire
\* the chunks a client stores: the bytes of one f.read(chunk_size), not empty
ChunkDatas == {<<"a", "b">>, <<"b">>}

ChunkIds == {ChunkId("f", 0)}

\* the lists of nodes download_init names for one chunk
NodeLists == {l \in SeqsUpTo(FileNodes, ReplicationFactor) :
                l # <<>> /\ \A i, j \in 1..Len(l) : l[i] = l[j] => i = j}

\* history: the blob a storage directory holds under chunk_id, <<>> if none
BlobOf(node, chunk_id) ==
    IF chunk_id \in DOMAIN node.storage THEN <<node.storage[chunk_id]>> ELSE <<>>

\* the client is in no exchange and the DataNode's handler thread has ended
Finished == conn.cpc \in {"idle", "done"} /\ conn.spc \in {"idle", "closed"}

\* store_chunk_to_datanode: connect, and the JSON request is sent
StoreConnect(n, chunk_id, chunk_data) ==
    /\ Finished
    /\ conn' =
         IF ~dn[n].running
         THEN [ConnIdle EXCEPT !.op = "store", !.node = n,
                               !.chunk_id = chunk_id,
                               !.chunk_data = chunk_data,
                               !.before = BlobOf(dn[n], chunk_id),
                               !.c_result = "False", !.cpc = "done"]
         ELSE [ConnIdle EXCEPT !.op = "store", !.node = n,
                               !.chunk_id = chunk_id,
                               !.chunk_data = chunk_data,
                               !.before = BlobOf(dn[n], chunk_id),
                               !.c2s = <<JsonItem([command |-> "store_chunk",
                                                   chunk_id |-> chunk_id,
                                                   chunk_size |-> Len(chunk_data)])>>,
                               !.cpc = "await_ready", !.spc = "recv_request"]
    /\ UNCHANGED <<datanodes, datanodes_keys, files, now, report, rw, locking, boot, monitor, resp, dn, upl,
                   dl, deleted, files_lock, handlers, upl2>>

\* DataNode.handle_client: the request is received and dispatched
ServerRecvRequest ==
    /\ conn.spc = "recv_request"
    /\ conn.c2s # <<>>
    /\ LET request == Head(conn.c2s).v
       IN  conn' = [conn EXCEPT !.c2s = Tail(@),
                                !.s_request = request,
                                !.spc = IF request.command = "store_chunk"
                                        THEN "send_ready" ELSE "lookup"]
    /\ UNCHANGED <<datanodes, datanodes_keys, files, now, report, rw, locking, boot, monitor, resp, dn, upl,
                   dl, deleted, files_lock, handlers, upl2>>

\* DataNode.store_chunk: the ready signal is sent, the read loop set up
ServerSendReady ==
    /\ conn.spc = "send_ready"
    /\ conn' = [conn EXCEPT !.s2c = Append(@, TokenItem("READY")),
                            !.s_ready = TRUE,
                            !.s_chunk = <<>>,
                            !.s_remaining = conn.s_request.chunk_size,
                            !.s_read_done = conn.s_request.chunk_size = 0,
                            !.spc = IF conn.s_request.chunk_size > 0
                                    THEN "reading" ELSE "write"]
    /\ UNCHANGED <<datanodes, datanodes_keys, files, now, report, rw, locking, boot, monitor, resp, dn, upl,
                   dl, deleted, files_lock, handlers, upl2>>

\* store_chunk_to_datanode: sock.recv(5) and the test of the signal; an empty
\* read when the DataNode is gone
ClientRecvReady ==
    /\ conn.cpc = "await_ready"
    /\ conn.s2c # <<>> \/ conn.s_closed # "no"
    /\ LET signal == IF conn.s2c = <<>> THEN ""
                     ELSE IF Head(conn.s2c).t = "token" THEN Head(conn.s2c).v
                     ELSE "other"
       IN  conn' = IF signal = "READY"
                   THEN [conn EXCEPT !.s2c = Tail(@), !.c_ready = TRUE,
                                     !.cpc = "send_chunk"]
                   ELSE [conn EXCEPT !.c_result = "False", !.c_closed = "fin",
                                     !.cpc = "done"]
    /\ UNCHANGED <<datanodes, datanodes_keys, files, now, report, rw, locking, boot, monitor, resp, dn, upl,
                   dl, deleted, files_lock, handlers, upl2>>

\* store_chunk_to_datanode: sock.sendall(chunk_data)
ClientSendChunk ==
    /\ conn.cpc = "send_chunk"
    /\ conn' = [conn EXCEPT !.c2s = @ \o ByteItems(conn.chunk_data),
                            !.c_sent = Len(conn.chunk_data),
                            !.cpc = "await_result"]
    /\ UNCHANGED <<datanodes, datanodes_keys, files, now, report, rw, locking, boot, monitor, resp, dn, upl,
                   dl, deleted, files_lock, handlers, upl2>>

\* store_chunk_to_datanode: sendall ends after k bytes (the timeout of 10 s,
\* or the client is killed) and the socket is closed, orderly or by a reset
ClientCloses(k, how) ==
    /\ conn.cpc = "send_chunk"
    /\ k < Len(conn.chunk_data)
    /\ conn' = [conn EXCEPT !.c2s = @ \o ByteItems(SubSeq(conn.chunk_data, 1, k)),
                            !.c_sent = k,
                            !.c_closed = how,
                            !.short = TRUE,
                            !.c_result = "False",
                            !.cpc = "done"]
    /\ UNCHANGED <<datanodes, datanodes_keys, files, now, report, rw, locking, boot, monitor, resp, dn, upl,
                   dl, deleted, files_lock, handlers, upl2>>

\* DataNode.store_chunk: one recv of the read loop that returns m bytes
ServerRecvBytes(m) ==
    /\ conn.spc = "reading"
    /\ m <= Min(Len(conn.c2s), conn.s_remaining)
    /\ conn' = [conn EXCEPT !.s_chunk = @ \o BytesOf(SubSeq(conn.c2s, 1, m)),
                            !.s_remaining = @ - m,
                            !.c2s = SubSeq(@, m + 1, Len(@)),
                            !.s_read_done = conn.s_remaining = m,
                            !.spc = IF conn.s_remaining = m
                                    THEN "write" ELSE "reading"]
    /\ UNCHANGED <<datanodes, datanodes_keys, files, now, report, rw, locking, boot, monitor, resp, dn, upl,
                   dl, deleted, files_lock, handlers, upl2>>

\* DataNode.store_chunk: a recv of the read loop on a connection the client
\* closed: the empty read leaves the loop, a reset raises and the handler
\* returns the error response, which no longer reaches the client
ServerRecvEnd ==
    /\ conn.spc = "reading"
    /\ conn.c2s = <<>>
    /\ conn.c_closed # "no"
    /\ conn' = IF conn.c_closed = "fin"
               THEN [conn EXCEPT !.s_read_done = TRUE, !.spc = "write"]
               ELSE [conn EXCEPT !.s_response = [status |-> "error",
                                                 message |-> "reset"],
                                 !.s_closed = "fin", !.spc = "closed"]
    /\ UNCHANGED <<datanodes, datanodes_keys, files, now, report, rw, locking, boot, monitor, resp, dn, upl,
                   dl, deleted, files_lock, handlers, upl2>>

\* DataNode.store_chunk: the file is written and entered in self.chunks
ServerWrite ==
    /\ conn.spc = "write"
    /\ dn' = [dn EXCEPT ![conn.node] =
                store_chunk(@, conn.s_request.chunk_id, conn.s_chunk)]
    /\ conn' = [conn EXCEPT !.spc = "result"]
    /\ UNCHANGED <<datanodes, datanodes_keys, files, now, report, rw, locking, boot, monitor, resp, upl,
                   dl, deleted, files_lock, handlers, upl2>>

\* DataNode.store_chunk: the checksum, the success response; handle_client
\* closes the socket
ServerSendResult ==
    /\ conn.spc = "result"
    /\ LET response == [status |-> "success",
                        chunk_id |-> conn.s_request.chunk_id,
                        size |-> Len(conn.s_chunk),
                        checksum |-> md5(conn.s_chunk)]
       IN  conn' = [conn EXCEPT !.s2c = Append(@, JsonItem(response)),
                                !.s_response = response,
                                !.s_result = TRUE,
                                !.s_closed = "fin",
                                !.spc = "closed"]
    /\ UNCHANGED <<datanodes, datanodes_keys, files, now, report, rw, locking, boot, monitor, resp, dn, upl,
                   dl, deleted, files_lock, handlers, upl2>>

\* store_chunk_to_datanode: the confirmation is read and the status returned;
\* an empty read does not parse and False is returned
ClientRecvResult ==
    /\ conn.cpc = "await_result"
    /\ conn.s2c # <<>> \/ conn.s_closed # "no"
    /\ conn' = IF conn.s2c # <<>> /\ Head(conn.s2c).t = "json"
               THEN [conn EXCEPT !.s2c = Tail(@),
                                 !.c_result =
                                    IF Head(conn.s2c).v.status = "success"
                                    THEN "True" ELSE "False",
                                 !.c_closed = "fin", !.cpc = "done"]
               ELSE [conn EXCEPT !.c_result = "False", !.c_closed = "fin",
                                 !.cpc = "done"]
    /\ UNCHANGED <<datanodes, datanodes_keys, files, now, report, rw, locking, boot, monitor, resp, dn, upl,
                   dl, deleted, files_lock, handlers, upl2>>

\* download_file: the loop over the nodes listed for one chunk begins
RetrieveStart(chunk_id, nodes) ==
    /\ Finished
    /\ conn' = [ConnIdle EXCEPT !.op = "retrieve", !.chunk_id = chunk_id,
                                !.nodes = nodes, !.idx = 1, !.cpc = "connect"]
    /\ UNCHANGED <<datanodes, datanodes_keys, files, now, report, rw, locking, boot, monitor, resp, dn, upl,
                   dl, deleted, files_lock, handlers, upl2>>

\* retrieve_chunk_from_datanode: connect to the node tried, and the JSON
\* request is sent; None if the connection is refused
RetrieveConnect ==
    /\ conn.cpc = "connect"
    /\ conn.spc \in {"idle", "closed"}
    /\ LET n == conn.nodes[conn.idx]
       IN  conn' =
             IF ~dn[n].running
             THEN [ConnIdle EXCEPT !.op = "retrieve",
                                   !.chunk_id = conn.chunk_id,
                                   !.nodes = conn.nodes, !.idx = conn.idx,
                                   !.node = n,
                                   !.c_result = "None", !.cpc = "returned"]
             ELSE [ConnIdle EXCEPT !.op = "retrieve",
                                   !.chunk_id = conn.chunk_id,
                                   !.nodes = conn.nodes, !.idx = conn.idx,
                                   !.node = n,
                                   !.c2s = <<JsonItem([command |-> "retrieve_chunk",
                                                       chunk_id |-> conn.chunk_id])>>,
                                   !.cpc = "await_header",
                                   !.spc = "recv_request"]
    /\ UNCHANGED <<datanodes, datanodes_keys, files, now, report, rw, locking, boot, monitor, resp, dn, upl,
                   dl, deleted, files_lock, handlers, upl2>>

\* DataNode.retrieve_chunk: an unknown chunk is answered with an error;
\* else the file is read and the response header sent
ServerLookup ==
    /\ conn.spc = "lookup"
    /\ LET chunk_id == conn.s_request.chunk_id
           node == dn[conn.node]
       IN  conn' =
             IF chunk_id \notin node.chunks
             THEN LET response == [status |-> "error",
                                   message |-> "Chunk not found"]
                  IN  [conn EXCEPT !.s2c = Append(@, JsonItem(response)),
                                   !.s_response = response,
                                   !.s_result = TRUE,
                                   !.s_closed = "fin", !.spc = "closed"]
             ELSE LET chunk_data == node.storage[chunk_id]
                      response == [status |-> "success", chunk_id |-> chunk_id,
                                   size |-> Len(chunk_data)]
                  IN  [conn EXCEPT !.s2c = Append(@, JsonItem(response)),
                                   !.s_response = response,
                                   !.s_result = TRUE,
                                   !.s_chunk = chunk_data,
                                   !.spc = "await_signal"]
    /\ UNCHANGED <<datanodes, datanodes_keys, files, now, report, rw, locking, boot, monitor, resp, dn, upl,
                   dl, deleted, files_lock, handlers, upl2>>

\* retrieve_chunk_from_datanode: the response header is read; on success the
\* ready signal is sent and the read loop set up, else None is returned
ClientRecvHeader ==
    /\ conn.cpc = "await_header"
    /\ conn.s2c # <<>> \/ conn.s_closed # "no"
    /\ conn' =
         IF conn.s2c # <<>> /\ Head(conn.s2c).t = "json"
            /\ Head(conn.s2c).v.status = "success"
         THEN LET chunk_size == Head(conn.s2c).v.size
              IN  [conn EXCEPT !.s2c = Tail(@),
                               !.c_size = chunk_size,
                               !.c2s = Append(@, TokenItem("READY")),
                               !.c_chunk = <<>>,
                               !.c_remaining = chunk_size,
                               !.c_result = IF chunk_size > 0 THEN "none"
                                            ELSE "bytes",
                               !.c_closed = IF chunk_size > 0 THEN "no"
                                            ELSE "fin",
                               !.cpc = IF chunk_size > 0 THEN "receiving"
                                       ELSE "returned"]
         ELSE [conn EXCEPT !.s2c = <<>>, !.c_result = "None",
                           !.c_closed = "fin", !.cpc = "returned"]
    /\ UNCHANGED <<datanodes, datanodes_keys, files, now, report, rw, locking, boot, monitor, resp, dn, upl,
                   dl, deleted, files_lock, handlers, upl2>>

\* a client that is not DFSClient answers the header with another token and
\* leaves
ForeignSignal(signal) ==
    /\ conn.cpc = "await_header"
    /\ conn.s2c # <<>>
    /\ Head(conn.s2c).v.status = "success"
    /\ conn' = [conn EXCEPT !.s2c = <<>>,
                            !.c2s = Append(@, TokenItem(signal)),
                            !.c_closed = "fin", !.cpc = "done"]
    /\ UNCHANGED <<datanodes, datanodes_keys, files, now, report, rw, locking, boot, monitor, resp, dn, upl,
                   dl, deleted, files_lock, handlers, upl2>>

\* mutant: the chunk is streamed whatever the token
ReadySignal_Any(signal) == TRUE

\* DataNode.retrieve_chunk: the test of the signal received
ReadySignal(signal) == signal = "READY"

\* DataNode.retrieve_chunk: client_socket.recv(5), and the chunk is sent if
\* the signal is READY; handle_client closes the socket
ServerRecvSignal ==
    /\ conn.spc = "await_signal"
    /\ conn.c2s # <<>> \/ conn.c_closed # "no"
    /\ LET signal == IF conn.c2s = <<>> THEN "" ELSE Head(conn.c2s).v
       IN  conn' = IF ReadySignal(signal)
                   THEN [conn EXCEPT !.c2s = <<>>,
                                     !.s_signal = signal,
                                     !.s2c = @ \o ByteItems(conn.s_chunk),
                                     !.s_streamed = Len(conn.s_chunk),
                                     !.s_closed = "fin", !.spc = "closed"]
                   ELSE [conn EXCEPT !.c2s = <<>>,
                                     !.s_signal = signal,
                                     !.s_closed = "fin", !.spc = "closed"]
    /\ UNCHANGED <<datanodes, datanodes_keys, files, now, report, rw, locking, boot, monitor, resp, dn, upl,
                   dl, deleted, files_lock, handlers, upl2>>

\* DataNode.retrieve_chunk: the process is killed inside sendall, after k
\* bytes of the chunk
DataNodeKilledSending(k) ==
    /\ conn.spc = "await_signal"
    /\ conn.c2s # <<>>
    /\ ReadySignal(Head(conn.c2s).v)
    /\ k < Len(conn.s_chunk)
    /\ dn' = [dn EXCEPT ![conn.node].running = FALSE]
    /\ conn' = [conn EXCEPT !.c2s = <<>>,
                            !.s_signal = Head(conn.c2s).v,
                            !.s2c = @ \o ByteItems(SubSeq(conn.s_chunk, 1, k)),
                            !.s_streamed = k,
                            !.short = TRUE,
                            !.s_closed = "fin", !.spc = "closed"]
    /\ UNCHANGED <<datanodes, datanodes_keys, files, now, report, rw, locking, boot, monitor, resp, upl,
                   dl, deleted, files_lock, handlers, upl2>>

\* retrieve_chunk_from_datanode: one recv of the read loop that returns m
\* bytes; after the last byte the chunk is returned
ClientRecvBytes(m) ==
    /\ conn.cpc = "receiving"
    /\ m <= Min(Len(conn.s2c), conn.c_remaining)
    /\ conn' = [conn EXCEPT !.c_chunk = @ \o BytesOf(SubSeq(conn.s2c, 1, m)),
                            !.c_remaining = @ - m,
                            !.s2c = SubSeq(@, m + 1, Len(@)),
                            !.c_result = IF conn.c_remaining = m
                                         THEN "bytes" ELSE "none",
                            !.c_closed = IF conn.c_remaining = m
                                         THEN "fin" ELSE "no",
                            !.cpc = IF conn.c_remaining = m
                                    THEN "returned" ELSE "receiving"]
    /\ UNCHANGED <<datanodes, datanodes_keys, files, now, report, rw, locking, boot, monitor, resp, dn, upl,
                   dl, deleted, files_lock, handlers, upl2>>

\* retrieve_chunk_from_datanode: an empty read leaves the loop and what was
\* received is returned
ClientRecvEnd ==
    /\ conn.cpc = "receiving"
    /\ conn.s2c = <<>>
    /\ conn.s_closed # "no"
    /\ conn' = [conn EXCEPT !.c_result = "bytes", !.c_closed = "fin",
                            !.cpc = "returned"]
    /\ UNCHANGED <<datanodes, datanodes_keys, files, now, report, rw, locking, boot, monitor, resp, dn, upl,
                   dl, deleted, files_lock, handlers, upl2>>

\* download_file: the chunk returned is taken, or the next node tried, or
\* the download given up after the last node
ClientNext ==
    /\ conn.cpc = "returned"
    /\ conn' = IF ChunkUsable(conn.c_result, conn.c_chunk)
               THEN [conn EXCEPT !.chunks_data = conn.c_chunk,
                                 !.chunk_retrieved = TRUE,
                                 !.cpc = "done"]
               ELSE IF conn.idx < Len(conn.nodes)
               THEN [conn EXCEPT !.idx = @ + 1, !.cpc = "connect"]
               ELSE [conn EXCEPT !.cpc = "done"]
    /\ UNCHANGED <<datanodes, datanodes_keys, files, now, report, rw, locking, boot, monitor, resp, dn, upl,
                   dl, deleted, files_lock, handlers, upl2>>

\* the DataNode process is killed: its sockets close, its storage stays
DataNodeKilled(n) ==
    /\ dn[n].running
    /\ dn' = [dn EXCEPT ![n].running = FALSE]
    /\ conn' = IF conn.node = n /\ conn.spc \notin {"idle", "closed"}
               THEN [conn EXCEPT !.s_closed = "fin", !.spc = "closed"]
               ELSE conn
    /\ UNCHANGED <<datanodes, datanodes_keys, files, now, report, rw, locking, boot, monitor, resp, upl,
                   dl, deleted, files_lock, handlers, upl2>>

\* the tokens a client may answer the response header with
Signals == {"NOTOK"}

\* the closes of a client's socket: orderly, or by a reset
Closes == {"fin", "rst"}

\* one client that stores and retrieves chunks, and the DataNodes
NextWire ==
    \/ \E n \in FileNodes : DataNodeStart(n)
    \/ DataNodeReply
    \/ \E n \in FileNodes : DataNodeKilled(n)
    \/ \E n \in FileNodes, chunk_id \in ChunkIds, chunk_data \in ChunkDatas :
          StoreConnect(n, chunk_id, chunk_data)
    \/ ServerRecvRequest
    \/ ServerSendReady
    \/ ClientRecvReady
    \/ ClientSendChunk
    \/ \E k \in 0..(ChunkSize - 1), how \in Closes : ClientCloses(k, how)
    \/ \E m \in 1..ChunkSize : ServerRecvBytes(m)
    \/ ServerRecvEnd
    \/ ServerWrite
    \/ ServerSendResult
    \/ ClientRecvResult
    \/ \E chunk_id \in ChunkIds, nodes \in NodeLists :
          RetrieveStart(chunk_id, nodes)
    \/ RetrieveConnect
    \/ ServerLookup
    \/ ClientRecvHeader
    \/ \E signal \in Signals : ForeignSignal(signal)
    \/ ServerRecvSignal
    \/ \E k \in 0..(ChunkSize - 1) : DataNodeKilledSending(k)
    \/ \E m \in 1..ChunkSize : ClientRecvBytes(m)
    \/ ClientRecvEnd
    \/ ClientNext

SpecWire == Init /\ [][NextWire]_vars

\* ------------------------------------------------------------------ claims
\* ceil(size / ChunkSize), by its definition
Ceil(size) ==
    CHOOSE n \in 0..size : n * ChunkSize >= size /\ (n = 0 \/ (n - 1) * ChunkSize < size)

\* a node the NameNode has heard from within the liveness timeout
Live(node_id) ==
    /\ node_id \in DOMAIN datanodes
    /\ now - datanodes[node_id].last_heartbeat < Timeout

NodeIds(addresses) == [i \in 1..Len(addresses) |-> addresses[i].node_id]

NoRepeat(s) == \A i, j \in 1..Len(s) : i # j => s[i] # s[j]

\* a is b with some elements left out
RECURSIVE IsSubseq(_, _)
IsSubseq(a, b) ==
    IF a = <<>> THEN TRUE
    ELSE IF b = <<>> THEN FALSE
    ELSE IF Head(a) = Head(b) THEN IsSubseq(Tail(a), Tail(b))
    ELSE IsSubseq(a, Tail(b))

C2_UploadInitAssignments ==
    (resp.cmd = "upload_init" /\ resp.status = "success") =>
        /\ resp.num_chunks = Ceil(resp.filesize)
        /\ DOMAIN resp.chunk_assignments = 0..(resp.num_chunks - 1)
        /\ \A c \in DOMAIN resp.chunk_assignments :
              LET ids == NodeIds(resp.chunk_assignments[c])
              IN  /\ Len(ids) = ReplicationFactor
                  /\ NoRepeat(ids)
                  /\ \A i \in 1..Len(ids) : Live(ids[i])

\* a two-chunk upload_init succeeded while a live node was left out
C2_Witness ==
    /\ resp.cmd = "upload_init" /\ resp.status = "success"
    /\ resp.num_chunks = 2
    /\ \E n \in DOMAIN datanodes :
          Live(n) /\ ~Contains(NodeIds(resp.chunk_assignments[0]), n)

\* C3 as stated: an upload of any declared size, 0 included, begun while fewer
\* than replication_factor nodes are live is refused at upload_init with
\* "Insufficient DataNodes", the call changes neither the file index nor the
\* registry, and the client ends as failed without sending upload_complete.
C3_InsufficientAnySize ==
    [][upl'.short =>
          /\ upl'.pc \in {"upload_init", "idle"}
          /\ (upl.pc = "idle" /\ upl'.pc = "upload_init") =>
                /\ resp'.cmd = "upload_init"
                /\ resp'.status = "error"
                /\ resp'.message = "Insufficient DataNodes"
                /\ files' = files
                /\ datanodes' = datanodes
                /\ datanodes_keys' = datanodes_keys
          /\ upl'.pc = "idle" =>
                /\ upl'.result = "failed"
                /\ upl'.message = "Insufficient DataNodes"]_vars

\* C3: an upload of declared size at least 1 begun while fewer than
\* replication_factor nodes are live is refused at upload_init with
\* "Insufficient DataNodes", the call changes neither the file index nor the
\* registry, and the client ends as failed without sending upload_complete.
C3_InsufficientDataNodes ==
    [][(upl'.short /\ Len(upl'.data) >= 1) =>
          /\ upl'.pc \in {"upload_init", "idle"}
          /\ (upl.pc = "idle" /\ upl'.pc = "upload_init") =>
                /\ resp'.cmd = "upload_init"
                /\ resp'.status = "error"
                /\ resp'.message = "Insufficient DataNodes"
                /\ files' = files
                /\ datanodes' = datanodes
                /\ datanodes_keys' = datanodes_keys
          /\ upl'.pc = "idle" =>
                /\ upl'.result = "failed"
                /\ upl'.message = "Insufficient DataNodes"]_vars

\* the client has given up an upload of a non-empty file that it began with
\* one node registered and live
C3_Witness ==
    /\ upl.short /\ Len(upl.data) >= 1
    /\ upl.pc = "idle" /\ upl.result = "failed"
    /\ upl.message = "Insufficient DataNodes"
    /\ upl.filename \notin DOMAIN files
    /\ LiveCount = 1

C5_DeletedFileNotFound ==
    [][ /\ (resp'.cmd = "delete_file" /\ resp'.filename \notin DOMAIN files) =>
              /\ resp'.status = "error" /\ resp'.message = "File not found"
              /\ files' = files
        /\ \A f \in deleted :
              /\ (resp'.cmd \in {"download_init", "file_info", "delete_file"}
                    /\ resp'.filename = f) =>
                    (resp'.status = "error" /\ resp'.message = "File not found")
              /\ resp'.cmd = "list_files" =>
                    \A e \in resp'.files : e.filename # f
              /\ f \in DOMAIN files' =>
                    (resp'.cmd = "upload_complete" /\ resp'.filename = f)
      ]_vars

\* a download_init of a deleted name was answered NotFound
C5_Witness ==
    /\ resp.cmd = "download_init" /\ resp.filename \in deleted
    /\ resp.status = "error" /\ resp.message = "File not found"

NoDeadReplica ==
    \A f \in DOMAIN files : \A k \in DOMAIN files[f].chunks :
        \A i \in 1..Len(files[f].chunks[k]) :
            LET id == files[f].chunks[k][i]
            IN  id \in DOMAIN datanodes => datanodes[id].is_alive

\* C7: whenever an iteration of the liveness scanner has completed, no node
\* whose alive bit is false is in a replica list of any FileRecord, those
\* installed by an upload_complete during or after the marking included.
C7_NoDeadReplicaAfterScan == monitor.pc = "sleep" => NoDeadReplica

\* C8: the keys of every FileRecord's chunks map are exactly
\* 0 .. ceil(size / chunk_size) - 1.
C8_ChunkKeys ==
    \A f \in DOMAIN files :
        DOMAIN files[f].chunks = 0..(Ceil(files[f].size) - 1)

\* C9: every id in a replica list of a FileRecord is a key of the registry.
C9_ReplicasRegistered ==
    \A f \in DOMAIN files : \A k \in DOMAIN files[f].chunks :
        \A i \in 1..Len(files[f].chunks[k]) :
            files[f].chunks[k][i] \in DOMAIN datanodes

\* C10: a heartbeat of an id that is not registered is answered with the
\* UnknownNode error, creates no record and changes no existing record.
C10_UnknownHeartbeat ==
    [][ (resp'.cmd = "heartbeat" /\ resp'.node_id \notin DOMAIN datanodes) =>
            /\ resp'.status = "error"
            /\ resp'.message = "DataNode not registered"
            /\ datanodes' = datanodes
            /\ datanodes_keys' = datanodes_keys
      ]_vars

\* an unknown node's heartbeat was refused while other nodes were registered
C10_Witness ==
    /\ resp.cmd = "heartbeat" /\ resp.status = "error"
    /\ resp.node_id \notin DOMAIN datanodes
    /\ DOMAIN datanodes # {}

\* C11: a register for an id that is already in the registry returns success
\* and leaves that record and the rest of the registry unchanged, whatever
\* host and port it carries and whether the node is alive or dead.
C11_RegisterIdempotent ==
    [][ (resp'.cmd = "register_datanode" /\ resp'.node_id \in DOMAIN datanodes) =>
            /\ resp'.status = "success"
            /\ datanodes' = datanodes
            /\ datanodes_keys' = datanodes_keys
      ]_vars

\* a dead node was registered again under another host and port
C11_Witness ==
    /\ resp.cmd = "register_datanode"
    /\ resp.message = "DataNode already registered"
    /\ ~datanodes[resp.node_id].is_alive
    /\ datanodes[resp.node_id].host # resp.host
    /\ datanodes[resp.node_id].port # resp.port

\* C12: per node the only transitions are unregistered to alive by the first
\* register, alive to dead by the liveness scan, and dead to alive by an
\* accepted heartbeat of that node; a record is never removed.
C12_NodeTransitions ==
    [][ \A n \in Nodes :
          /\ n \in DOMAIN datanodes => n \in DOMAIN datanodes'
          /\ (n \notin DOMAIN datanodes /\ n \in DOMAIN datanodes') =>
                /\ resp'.cmd = "register_datanode" /\ resp'.node_id = n
                /\ datanodes'[n].is_alive
          /\ (n \in DOMAIN datanodes /\ n \in DOMAIN datanodes') =>
                /\ (datanodes[n].is_alive /\ ~datanodes'[n].is_alive) =>
                      /\ monitor.pc = "sleep" /\ monitor'.pc = "failures"
                      /\ Contains(monitor'.dead_nodes, n)
                      /\ resp' = resp
                /\ (~datanodes[n].is_alive /\ datanodes'[n].is_alive) =>
                      /\ resp'.cmd = "heartbeat" /\ resp'.node_id = n
                      /\ resp'.status = "success"
      ]_vars

\* a node the scan marked dead is alive again after its heartbeat, while
\* another dead node has just been registered again and is still dead
C12_Witness ==
    /\ monitor.pc = "failures"
    /\ \E n \in DOMAIN datanodes :
          Contains(monitor.dead_nodes, n) /\ datanodes[n].is_alive
    /\ resp.cmd = "register_datanode"
    /\ resp.node_id \in DOMAIN datanodes
    /\ ~datanodes[resp.node_id].is_alive

\* C13: immediately after a heartbeat answered with success the sender's
\* record has alive = true and its available bytes, total bytes and inventory
\* are those the heartbeat carried.
C13_HeartbeatUpdates ==
    (resp.cmd = "heartbeat" /\ resp.status = "success") =>
        /\ resp.node_id \in DOMAIN datanodes
        /\ datanodes[resp.node_id].is_alive
        /\ datanodes[resp.node_id].available_space = resp.available_space
        /\ datanodes[resp.node_id].total_space = resp.total_space
        /\ datanodes[resp.node_id].chunks = resp.chunks

\* a node that the scan had marked dead has sent a heartbeat with a non-empty
\* inventory and less available than total space
C13_Witness ==
    /\ resp.cmd = "heartbeat" /\ resp.status = "success"
    /\ Contains(monitor.dead_nodes, resp.node_id)
    /\ resp.chunks # {}
    /\ resp.available_space < resp.total_space

\* the chunk map a FileRecord built from the request chunk map has: the keys
\* with at least one id, each with the ids of the request in their order
SameChunkMap(chunks, request_chunks) ==
    /\ DOMAIN chunks = {k \in DOMAIN request_chunks : request_chunks[k] # <<>>}
    /\ \A k \in DOMAIN chunks :
          /\ NoRepeat(chunks[k])
          /\ IsSubseq(chunks[k], request_chunks[k])
          /\ \A i \in 1..Len(request_chunks[k]) :
                Contains(chunks[k], request_chunks[k][i])

\* C14: after upload_complete calls for the same name, in any interleaving,
\* the FileRecord under the name has exactly the size and the chunk map of the
\* call processed last, and no chunk index or replica id of an earlier call.
C14_LastWriterWins ==
    \A t \in Threads :
        LET r == handlers[t].request
        IN  (r.command = "upload_complete" /\ handlers[t].latest) =>
                /\ r.filename \in DOMAIN files
                /\ files[r.filename].size = r.filesize
                /\ SameChunkMap(files[r.filename].chunks, r.chunks)

\* two upload_complete calls for one name have been answered; the one
\* processed first carried another size, a chunk index and a node id that the
\* one processed last did not carry
C14_Witness ==
    \E t, u \in Threads :
        LET first == handlers[t].request
            last == handlers[u].request
        IN  /\ handlers[t].pc = "done" /\ handlers[u].pc = "done"
            /\ first.command = "upload_complete" /\ last.command = "upload_complete"
            /\ first.filename = last.filename
            /\ ~handlers[t].latest /\ handlers[u].latest
            /\ first.filesize # last.filesize
            /\ DOMAIN first.chunks = {0, 1} /\ DOMAIN last.chunks = {0}
            /\ first.chunks[0] = <<"dn1">> /\ last.chunks[0] = <<"dn2">>

\* C16: a list_files that runs concurrently with upload_complete returns the
\* file index as it was before or after an upload_complete: a file is absent
\* or listed with the final size and the full chunk count of the call that
\* installed it, never with a partly filled chunk map.
C16_ListNotTorn ==
    \A t \in Threads :
        (handlers[t].request.command = "list_files" /\ handlers[t].pc = "return") =>
            /\ handlers[t].response.status = "success"
            /\ handlers[t].response.files \in handlers[t].views
            /\ \A e \in handlers[t].response.files : \A u \in Threads :
                  LET r == handlers[u].request
                  IN  (/\ r.command = "upload_complete" /\ handlers[u].latest
                       /\ r.filename = e.filename) =>
                        /\ e.size = r.filesize
                        /\ e.chunks = Cardinality({k \in DOMAIN r.chunks :
                                                      r.chunks[k] # <<>>})

\* a list_files that was received before an upload_complete of two chunks
\* took the lock, and waited for it, lists the new file with both chunks
C16_Witness ==
    \E t, u \in Threads :
        /\ handlers[t].request.command = "list_files" /\ handlers[t].pc = "return"
        /\ Cardinality(handlers[t].views) > 1
        /\ handlers[u].request.command = "upload_complete" /\ handlers[u].latest
        /\ \E e \in handlers[t].response.files :
              e.filename = handlers[u].request.filename /\ e.chunks = 2

\* C17: of two concurrent delete_file calls for the same existing name, with
\* no upload_complete of the name in between, exactly one returns success,
\* the other NotFound, and the file is absent afterwards.
C17_ConcurrentDeletes ==
    \A t, u \in Threads :
        (/\ t # u
         /\ handlers[t].pc = "done" /\ handlers[u].pc = "done"
         /\ handlers[t].request.command = "delete_file"
         /\ handlers[u].request.command = "delete_file"
         /\ handlers[t].request.filename = handlers[u].request.filename
         /\ handlers[t].existed /\ handlers[u].existed
         /\ handlers[t].fresh /\ handlers[u].fresh) =>
            /\ handlers[t].request.filename \notin DOMAIN files
            /\ \/ /\ handlers[t].response.status = "success"
                  /\ handlers[u].response.status = "error"
                  /\ handlers[u].response.message = "File not found"
               \/ /\ handlers[u].response.status = "success"
                  /\ handlers[t].response.status = "error"
                  /\ handlers[t].response.message = "File not found"

\* two delete_file calls, both received while the file existed, are answered
C17_Witness ==
    /\ \A t \in Threads :
          /\ handlers[t].pc = "done"
          /\ handlers[t].request.command = "delete_file"
          /\ handlers[t].existed /\ handlers[t].fresh
    /\ \E t \in Threads : handlers[t].response.status = "success"

\* the record the file index holds for an upload that every assigned node
\* stored: its size, and every chunk index on replication_factor nodes
OwnRecord(u) ==
    /\ u.filename \in DOMAIN files
    /\ files[u.filename].size = Len(u.data)
    /\ DOMAIN files[u.filename].chunks = 0..(Ceil(Len(u.data)) - 1)
    /\ \A k \in DOMAIN files[u.filename].chunks :
          LET ids == files[u.filename].chunks[k]
          IN  /\ Len(ids) = ReplicationFactor
              /\ NoRepeat(ids)
              /\ \A i \in 1..Len(ids) :
                    ChunkId(u.filename, k) \in DOMAIN dn[ids[i]].storage
                    /\ dn[ids[i]].storage[ChunkId(u.filename, k)]
                          = ReadChunk(u.data, ChunkSize, k)

\* C15: two uploads of distinct filenames that run concurrently (the first
\* upload of either client), each begun with enough live nodes, both
\* succeed, and the file index then holds two FileRecords, each with the
\* size and the chunk map of its own upload.
C15_DistinctUploads ==
    (/\ upl.pc = "idle" /\ upl.result # "none"
     /\ upl2.pc = "idle" /\ upl2.result # "none"
     /\ upl.count = 1 /\ upl2.count = 1
     /\ upl.filename # upl2.filename
     /\ ~upl.short /\ ~upl2.short) =>
        /\ upl.result = "success" /\ upl2.result = "success"
        /\ DOMAIN files = {upl.filename, upl2.filename}
        /\ OwnRecord(upl)
        /\ OwnRecord(upl2)

\* two uploads of two chunks each, under different names, have ended, one
\* of them begun while the other was running
C15_Witness ==
    /\ upl.pc = "idle" /\ upl.result = "success"
    /\ upl2.pc = "idle" /\ upl2.result = "success"
    /\ upl.filename # upl2.filename
    /\ upl.overlap \/ upl2.overlap
    /\ Len(upl.data) = ChunkSize + 1 /\ Len(upl2.data) = ChunkSize + 1

\* the handler of a store_chunk exchange has returned its response
StoreReturned ==
    conn.op = "store" /\ conn.spc = "closed" /\ conn.s_response.status # "none"

\* the two outcomes of a store_chunk exchange: success, the blob being the
\* bytes the client had to send and the checksum their MD5; or an error, the
\* storage under chunk_id being what it was before
StoreOutcome ==
    \/ /\ conn.s_response.status = "success"
       /\ BlobOf(dn[conn.node], conn.chunk_id) = <<conn.chunk_data>>
       /\ conn.s_response.size = Len(conn.chunk_data)
       /\ conn.s_response.checksum = md5(conn.chunk_data)
    \/ /\ conn.s_response.status = "error"
       /\ BlobOf(dn[conn.node], conn.chunk_id) = conn.before

\* C18: every store_chunk exchange ends with success, the blob under chunk_id
\* being exactly the chunk_size bytes of the client and the checksum their
\* MD5, or with an error and no new or partial blob under chunk_id; a client
\* that closes after fewer than chunk_size bytes is not answered with success.
C18_StoreOutcome ==
    StoreReturned =>
        /\ StoreOutcome
        /\ conn.short => conn.s_response.status # "success"

\* what the code does keep: an exchange in which the client sent all its
\* bytes ends in one of the two outcomes
StoreOutcomeWhenComplete == (StoreReturned /\ ~conn.short) => StoreOutcome

\* retrieve_chunk_from_datanode has returned without the announced bytes:
\* None, or fewer bytes than the `size` of the response header
NotRetrieved ==
    /\ conn.op = "retrieve"
    /\ conn.cpc = "returned"
    /\ conn.c_result = "None" \/ Len(conn.c_chunk) < conn.c_size

\* C19: the client takes a chunk as retrieved only when it received exactly
\* the `size` bytes the response header announced; when the connection ends
\* before that, or the server answers with an error, it does not use the
\* data and tries the next listed node.
C19_ExactSize ==
    /\ [](conn.op = "retrieve" /\ conn.chunk_retrieved
            => Len(conn.chunks_data) = conn.c_size)
    /\ [][(NotRetrieved /\ conn'.cpc # "returned") =>
            /\ ~conn'.chunk_retrieved
            /\ conn.idx < Len(conn.nodes) =>
                  conn'.cpc = "connect" /\ conn'.idx = conn.idx + 1]_vars

\* what the code does keep: an error answer, a refused connection and an
\* empty read are not used and the next listed node is tried
NextNodeAfterNone ==
    [][(NotRetrieved /\ ~ChunkUsable(conn.c_result, conn.c_chunk)
          /\ conn'.cpc # "returned") =>
            /\ ~conn'.chunk_retrieved
            /\ conn.idx < Len(conn.nodes) =>
                  conn'.cpc = "connect" /\ conn'.idx = conn.idx + 1]_vars

\* C20: in store_chunk the client sends chunk bytes only after it received
\* READY, the server sends READY only after it received the JSON request and
\* its JSON result only after its read loop ended; in retrieve_chunk the
\* server streams chunk bytes only after it received READY, and streams
\* nothing if the token it received is not READY.
C20_HandshakeOrder ==
    /\ conn.c_sent > 0 => conn.c_ready
    /\ conn.c_ready => conn.s_ready
    /\ conn.s_ready => conn.s_request.command = "store_chunk"
    /\ (conn.op = "store" /\ conn.s_result) =>
            conn.s_read_done /\ conn.s_remaining + Len(conn.s_chunk)
                                   = conn.s_request.chunk_size
    /\ conn.s_streamed > 0 => conn.s_signal = "READY"
    /\ conn.s_signal \notin {"none", "READY"} =>
            /\ conn.s_streamed = 0
            /\ \A i \in 1..Len(conn.s2c) : conn.s2c[i].t # "byte"

\* a chunk stored by a whole store_chunk exchange is asked for, and the
\* header is answered with a token that is not READY
C20_Witness ==
    /\ conn.op = "retrieve"
    /\ conn.spc = "closed"
    /\ conn.s_signal = "NOTOK"
    /\ conn.s_response.status = "success"
    /\ conn.s_response.size = ChunkSize
    /\ BlobOf(dn[conn.node], conn.chunk_id) = <<conn.s_chunk>>

\* history: the nodes assigned to chunk k of the upload u that hold the
\* chunk's bytes, i.e. that acknowledged its store_chunk, in assigned order
AckedBy(u, storage, k) ==
    LET Holds(a) ==
            /\ ChunkId(u.filename, k) \in DOMAIN storage[a.node_id].storage
            /\ storage[a.node_id].storage[ChunkId(u.filename, k)]
                 = ReadChunk(u.data, u.chunk_size, k)
        acked == SelectSeq(u.chunk_assignments[k], Holds)
    IN  [i \in 1..Len(acked) |-> acked[i].node_id]

\* C21: the client sends upload_complete if and only if every chunk
\* 0..num_chunks-1 was acknowledged by at least one assigned node; the chunk
\* map it sends lists for each chunk exactly the assigned nodes that
\* acknowledged store_chunk; as soon as a chunk is acknowledged by no node
\* the upload is aborted without upload_complete and the index is untouched.
C21_CompleteIffAcknowledged ==
    /\ [](/\ upl.pc \in {"complete", "upload_complete"} =>
                /\ DOMAIN upl.uploaded_chunks = 0..(upl.num_chunks - 1)
                /\ \A k \in DOMAIN upl.uploaded_chunks :
                      /\ upl.uploaded_chunks[k] # <<>>
                      /\ upl.uploaded_chunks[k] = AckedBy(upl, dn, k)
          /\ upl.pc = "store" =>
                /\ DOMAIN upl.uploaded_chunks = 0..(upl.chunk_id - 1)
                /\ \A k \in DOMAIN upl.uploaded_chunks :
                      upl.uploaded_chunks[k] # <<>>)
    /\ [][/\ (upl.pc = "store" /\ upl'.pc = "idle") =>
                /\ upl'.result = "failed"
                /\ AckedBy(upl, dn', upl.chunk_id) = <<>>
                /\ files' = files
                /\ resp' = NoResp
          /\ (upl.pc = "store" /\ upl'.pc = "store" /\ upl'.node # upl.node
              /\ upl'.chunk_id = upl.chunk_id) =>
                upl.node < Len(upl.chunk_assignments[upl.chunk_id])
          /\ (resp'.cmd = "upload_complete" /\ resp.cmd # "upload_complete") =>
                /\ upl.pc = "complete"
                /\ files'[upl.filename].chunks = upl.uploaded_chunks
          /\ (upl.pc = "complete" /\ upl'.pc # "complete") =>
                resp'.cmd = "upload_complete"]_vars

\* all chunks of an upload of two chunks were acknowledged, one of them by
\* fewer nodes than were assigned, and upload_complete is about to be sent
C21_Witness ==
    /\ upl.pc = "complete"
    /\ upl.num_chunks = 2
    /\ \E k \in DOMAIN upl.uploaded_chunks :
          Len(upl.uploaded_chunks[k]) < Len(upl.chunk_assignments[k])

\* the node of the running download's current chunk that is tried next, and
\* whether it serves the chunk: the process runs and has the chunk
TriedNode == dl.chunk_locations[Head(dl.todo)][dl.node].node_id

Serves(n, chunk_id) ==
    dn[n].running /\ ChunkId(dl.filename, chunk_id) \in dn[n].chunks

\* C22: for each chunk of a download the client tries the listed nodes in
\* their order and stops at the first that serves the chunk; the download
\* succeeds when every chunk had a listed node that served it, and aborts,
\* writing no output, when for some chunk all listed nodes failed.
C22_ListedOrder ==
    /\ [](/\ dl.pc = "retrieve" =>
                dl.node \in 1..Len(dl.chunk_locations[Head(dl.todo)])
          /\ dl.pc = "reconstruct" =>
                DOMAIN dl.chunks_data = DOMAIN dl.chunk_locations
          /\ dl.result = "failed" => dl.output = <<>>)
    /\ [][(dl.pc = "retrieve" /\ dl' # dl /\ dl'.tracked = dl.tracked) =>
            LET chunk_id == Head(dl.todo)
                nodes == dl.chunk_locations[chunk_id]
            IN  IF Serves(TriedNode, chunk_id)
                THEN /\ dl'.chunks_data = dl.chunks_data @@
                           (chunk_id :> dn[TriedNode].storage[
                                            ChunkId(dl.filename, chunk_id)])
                     /\ dl'.todo = Tail(dl.todo)
                     /\ dl'.node = 1
                     /\ dl'.pc = IF Tail(dl.todo) = <<>>
                                 THEN "reconstruct" ELSE "retrieve"
                ELSE IF dl.node < Len(nodes)
                THEN /\ dl'.node = dl.node + 1
                     /\ dl'.todo = dl.todo
                     /\ dl'.chunks_data = dl.chunks_data
                     /\ dl'.pc = "retrieve"
                ELSE /\ dl'.pc = "idle"
                     /\ dl'.result = "failed"
                     /\ dl'.output = <<>>]_vars

\* the first node listed for a chunk has failed and the second, which serves
\* the chunk, is tried
C22_Witness ==
    /\ dl.pc = "retrieve"
    /\ dl.node = 2
    /\ Serves(TriedNode, Head(dl.todo))

\* the node id is in some replica list of the file index
Listed(n) ==
    \E f \in DOMAIN files : \E k \in DOMAIN files[f].chunks :
        Contains(files[f].chunks[k], n)

\* a registered node with the alive bit set whose process has stopped, so
\* that no heartbeat follows; its timeout ends within the time modelled
StoppedAlive(n) ==
    /\ n \in DOMAIN datanodes
    /\ ~dn[n].running
    /\ datanodes[n].is_alive
    /\ datanodes[n].last_heartbeat + Timeout <= MaxTime

\* the node is marked dead and in no replica list, or its process is back
DetectedOrBack(n) ==
    /\ n \in DOMAIN datanodes
    /\ \/ dn[n].running
       \/ ~datanodes[n].is_alive /\ ~Listed(n)

\* every chunk of the file keeps a replica whose node is healthy
HasLiveReplicas(f) ==
    \A k \in DOMAIN files[f].chunks :
        \E i \in 1..Len(files[f].chunks[k]) :
            DownloadFilter(files[f].chunks[k][i])

\* C23: if a registered chunk server stops sending heartbeats then, the
\* liveness scanner being scheduled fairly, its alive bit eventually becomes
\* false and it is removed from the replica lists of all files, while
\* cluster_status still lists its record; every file whose chunks each keep
\* a live replica still gets a successful download_init.
C23_LivenessDetection ==
    /\ \A n \in FileNodes : StoppedAlive(n) ~> DetectedOrBack(n)
    /\ [](resp.cmd = "cluster_status" =>
            /\ Len(resp.datanodes) = Cardinality(DOMAIN datanodes)
            /\ \A n \in DOMAIN datanodes :
                  \E i \in 1..Len(resp.datanodes) :
                      /\ resp.datanodes[i].node_id = n
                      /\ resp.datanodes[i].is_alive = datanodes[n].is_alive)
    /\ []((/\ resp.cmd = "download_init"
           /\ resp.filename \in DOMAIN files
           /\ HasLiveReplicas(resp.filename)) =>
            /\ resp.status = "success"
            /\ \A k \in DOMAIN resp.chunk_locations :
                  \A i \in 1..Len(resp.chunk_locations[k]) :
                      is_healthy(datanodes[resp.chunk_locations[k][i].node_id]))
    /\ [][\A n \in DOMAIN datanodes : n \in DOMAIN datanodes']_vars

\* dn1 has stopped, is marked dead and is in no replica list; the file's
\* chunks keep dn2, which is healthy, and download_init has just succeeded
C23_Witness ==
    /\ "dn1" \in DOMAIN datanodes
    /\ ~dn["dn1"].running
    /\ ~datanodes["dn1"].is_alive
    /\ ~Listed("dn1")
    /\ resp.cmd = "download_init"
    /\ resp.status = "success"
    /\ DOMAIN resp.chunk_locations = {0, 1}

\* ------------------------------------------------------------------
\* C24 (as the code has it): the inventory of the first heartbeat of a
\* DataNode process is the set of chunk ids whose blobs are in its storage
\* directory when the heartbeat is sent; for every chunk id not stored or
\* deleted since the start, that is what the storage directory held at the
\* start.  A running process tracks exactly the blobs of its directory.
FirstHeartbeat(n) ==
    /\ resp = NoResp
    /\ resp'.cmd = "heartbeat"
    /\ resp'.node_id = n
    /\ boot[n].beats = 0

C25_NoDuplicateReplica ==
    \A f \in DOMAIN files :
        \A k \in DOMAIN files[f].chunks : NoRepeat(files[f].chunks[k])

\* an upload_complete that listed dn1 twice for chunk 0 has been handled and
\* the record lists dn1 once
C25_Witness ==
    /\ resp.cmd = "upload_complete"
    /\ 0 \in DOMAIN resp.chunks
    /\ resp.chunks[0] = <<"dn1", "dn1">>
    /\ files[resp.filename].chunks[0] = <<"dn1">>

\* ------------------------------------------------------------------
\* C26: no thread of the NameNode tries to take datanodes_lock while it holds
\* files_lock (no thread ever holds both), so the mutexes are only taken in
\* the order datanodes_lock, files_lock; and there is no deadlock: a thread
\* that holds a mutex another thread waits for is never itself waiting.
Holds(t, l) == locking.owner[l] = t

Wants(t, l) ==
    /\ locking.op[t] # "idle"
    /\ NextStep(t) = Acquire(l)

C26_LockOrder ==
    \A t \in LockThreads :
        /\ Holds(t, "files_lock") => ~Wants(t, "datanodes_lock")
        /\ ~(Holds(t, "files_lock") /\ Holds(t, "datanodes_lock"))
        /\ \A l \in Mutexes :
              (Wants(t, l) /\ locking.owner[l] # "free") =>
                  \A m \in Mutexes : ~Wants(locking.owner[l], m)

\* heartbeat_monitor is in handle_node_failures with files_lock while a
\* handler waits for files_lock and the other handler holds datanodes_lock
C26_Witness ==
    /\ Holds("heartbeat_monitor", "files_lock")
    /\ Wants("handler1", "files_lock")
    /\ Holds("handler2", "datanodes_lock")

\* ------------------------------------------------------------------
\* C27 as stated: every read and write of self.datanodes is made by a thread
\* that holds datanodes_lock and every read and write of self.files by a
\* thread that holds files_lock.
MutexOf(d) == IF d = "datanodes" THEN "datanodes_lock" ELSE "files_lock"

Accesses(t) ==
    /\ locking.op[t] # "idle"
    /\ NextStep(t).do \in {"read", "write"}

C27_AccessUnderMutex ==
    \A t \in LockThreads :
        Accesses(t) => Holds(t, MutexOf(NextStep(t).on))

\* what holds: the file index is only touched under files_lock, the registry
\* is only written under datanodes_lock, and every read of the registry but
\* that of download_init is made under datanodes_lock
AccessUnderMutexButDownloadInit ==
    \A t \in LockThreads :
        (Accesses(t) /\ ~(locking.op[t] = "download_init"
                          /\ NextStep(t) = Reads("datanodes"))) =>
            Holds(t, MutexOf(NextStep(t).on))

\* ------------------------------------------------------------------
\* C28 as stated: a retrieve_chunk that runs while a store_chunk overwrites
\* the same chunk on the same DataNode reads either the complete previous
\* blob or the complete new blob.
C28_AtomicOverwrite ==
    rw.r_pc = "read" => rw.r_data \in {rw.r_old, rw.r_new}

\* what holds: a retrieve_chunk that reads the file while no store_chunk has
\* it open for writing reads a complete blob
CompleteWhenNotWriting ==
    (rw.r_pc = "read" /\ ~rw.r_during) =>
        (rw.r_data \in {rw.r_old, rw.r_new} /\ rw.r_data \in RwBlobs)

\* ------------------------------------------------------------------
\* C29: a heartbeat leaves the file index as it is; in a step that is not an
\* upload_complete for its name, a FileRecord that stays in the index keeps
\* its chunk indexes and each replica list keeps its ids or loses some, and
\* it loses ids only in handle_node_failures.
Handles(cmd) == resp = NoResp /\ resp'.cmd = cmd

C29_HeartbeatKeepsIndex ==
    [][/\ Handles("heartbeat") => files' = files
       /\ \A f \in DOMAIN files \cap DOMAIN files' :
             ~(Handles("upload_complete") /\ resp'.filename = f) =>
                 /\ DOMAIN files'[f].chunks = DOMAIN files[f].chunks
                 /\ \A k \in DOMAIN files[f].chunks :
                       IsSubseq(files'[f].chunks[k], files[f].chunks[k])
                 /\ files'[f] # files[f] => monitor.pc = "failures"]_vars

\* dn1, the only registered node, was removed from chunk 0 of f while dead
\* (an upload_complete leaves no empty list); its heartbeat reporting
\* chunk_f_0 has made it alive again and the list is still empty
C29_Witness ==
    /\ DOMAIN datanodes = {"dn1"}
    /\ resp.cmd = "heartbeat" /\ resp.status = "success"
    /\ resp.chunks = {"chunk_f_0"}
    /\ datanodes["dn1"].is_alive
    /\ "f" \in DOMAIN files
    /\ 0 \in DOMAIN files["f"].chunks
    /\ files["f"].chunks[0] = <<>>

\* ------------------------------------------------------------------
\* C30 as stated: a file installed by an upload_complete whose chunk map lacks
\* a chunk index of [0, ceil(size / chunk_size)) is reported by the next run
\* of replication_manager, which names the missing chunk.
MissingChunks(metadata) ==
    (0..(NumChunks(metadata.size) - 1)) \ DOMAIN metadata.chunks

C30_MissingChunkReported ==
    \A f \in DOMAIN report.index :
        \A k \in MissingChunks(report.index[f]) :
            f \in DOMAIN report.lines /\ k \in report.lines[f]

\* what holds: such an upload_complete succeeds and installs the file, and a
\* run of replication_manager names exactly the chunks the record lists with
\* fewer than replication_factor replicas, so never a missing chunk
MissingChunkUnreported ==
    /\ [](\A f \in DOMAIN report.index :
            LET under == {k \in DOMAIN report.index[f].chunks :
                            Len(report.index[f].chunks[k]) < ReplicationFactor}
            IN  /\ f \in DOMAIN report.lines <=> under # {}
                /\ f \in DOMAIN report.lines =>
                      /\ report.lines[f] = under
                      /\ report.lines[f] \cap MissingChunks(report.index[f]) = {})
    /\ [][(resp = NoResp /\ resp'.cmd = "upload_complete") =>
            /\ resp'.status = "success"
            /\ resp'.filename \in DOMAIN files'
            /\ DOMAIN files'[resp'.filename].chunks \subseteq DOMAIN resp'.chunks]_vars

\* ------------------------------------------------------------------
\* C31 as stated: the alive bit of every record cluster_status reports equals
\* (now - last_heartbeat) < timeout, the test upload_init and download_init
\* apply to the node.
Reported == IF resp.cmd = "cluster_status" THEN resp.datanodes ELSE <<>>

C31_AliveBitDerived ==
    \A i \in 1..Len(Reported) :
        Reported[i].is_alive = ((now - Reported[i].last_heartbeat) < Timeout)

\* what holds: the bit is stored, and cluster_status reports the stored bit;
\* a node that passes the test has the bit set, a node whose bit is clear
\* fails the test
AliveBitLags ==
    /\ \A n \in DOMAIN datanodes :
          is_healthy(datanodes[n]) => datanodes[n].is_alive
    /\ Len(Reported) = (IF resp.cmd = "cluster_status"
                        THEN Len(datanodes_keys) ELSE 0)
    /\ \A i \in 1..Len(Reported) :
          /\ Reported[i].is_alive = datanodes[datanodes_keys[i]].is_alive
          /\ ((now - Reported[i].last_heartbeat) < Timeout) => Reported[i].is_alive

\* ------------------------------------------------------------------
\* C32 as stated: a request answered with status error leaves the file index
\* and the registry exactly as they were.
AnswersError ==
    /\ resp = NoResp
    /\ resp'.cmd # "none"
    /\ resp'.status = "error"

C32_ErrorLeavesState ==
    [][AnswersError =>
        /\ files' = files
        /\ datanodes' = datanodes
        /\ datanodes_keys' = datanodes_keys]_vars

\* what holds: every error answer leaves the file index and the set of
\* registered nodes as they were, and every error answer but that to a
\* heartbeat leaves the registry as it was; a heartbeat answered with an
\* error leaves the node's inventory and alive bit as they were
ErrorLeavesIndex ==
    [][AnswersError =>
        /\ files' = files
        /\ datanodes_keys' = datanodes_keys
        /\ DOMAIN datanodes' = DOMAIN datanodes
        /\ resp'.cmd # "heartbeat" => datanodes' = datanodes
        /\ \A n \in DOMAIN datanodes :
              /\ datanodes'[n].chunks = datanodes[n].chunks
              /\ datanodes'[n].is_alive = datanodes[n].is_alive
              /\ datanodes'[n].host = datanodes[n].host
              /\ datanodes'[n].port = datanodes[n].port]_vars

\* ------------------------------------------------------------------
\* C33 as stated: a node that loses an entry of a replica list has its alive
\* bit clear at the moment of the removal.
LosesEntry(n) ==
    /\ monitor.pc = "failures" /\ monitor'.pc = "sleep"
    /\ \E f \in DOMAIN files \cap DOMAIN files' :
          \E k \in DOMAIN files[f].chunks \cap DOMAIN files'[f].chunks :
              /\ Contains(files[f].chunks[k], n)
              /\ ~Contains(files'[f].chunks[k], n)

C33_RemovedWhileDead ==
    [][\A n \in DOMAIN datanodes :
        LosesEntry(n) => ~datanodes[n].is_alive]_vars

\* what holds: handle_node_failures removes exactly the nodes the scan before
\* it marked dead, whatever their alive bit is by then
RemovedWereMarkedDead ==
    [][\A n \in FileNodes :
        LosesEntry(n) => Contains(monitor.dead_nodes, n)]_vars

\* ------------------------------------------------------------------
\* C34 as stated: after the first client's upload of f has completed and a
\* second upload of f, begun after that, was given up before upload_complete,
\* a download of f that succeeds yields the bytes of the first upload.
OneUploadEach ==
    /\ upl.count = 1 /\ upl2.count = 1
    /\ upl.pc = "idle" /\ upl2.pc = "idle"
    /\ upl.filename = upl2.filename

Downloaded ==
    /\ dl.pc = "idle"
    /\ dl.result = "success"
    /\ dl.filename = upl.filename

C34_AbortKeepsFile ==
    (/\ OneUploadEach
     /\ upl.result = "success" /\ upl.done.valid
     /\ ~upl2.overlap /\ upl2.result = "failed"
     /\ Downloaded)
    => dl.output = upl.done.data

\* what holds: the second upload, given up, leaves the FileRecord of the
\* first as it was installed, unless the first upload_complete was yet to
\* come
AbortKeepsRecord ==
    [][(/\ upl.count = 1 /\ upl.pc = "idle" /\ upl.result = "success"
        /\ upl2.pc # "idle" /\ ~upl2.overlap
        /\ upl2'.pc = "idle" /\ upl2'.result = "failed")
       => files' = files]_vars

\* ------------------------------------------------------------------
\* C35 as stated: after two clients have uploaded different bytes under the
\* same name at the same time and both uploads have completed, a download of
\* the name that succeeds yields the bytes of one of the two uploads.
BothCompleted ==
    /\ OneUploadEach
    /\ upl2.overlap
    /\ upl.result = "success" /\ upl.done.valid
    /\ upl2.result = "success" /\ upl2.done.valid
    /\ upl.done.data # upl2.done.data

C35_OneUploadWins ==
    (BothCompleted /\ Downloaded)
    => dl.output \in {upl.done.data, upl2.done.data}

\* what holds: each blob on a DataNode is one whole chunk of one of the two
\* uploads, and the FileRecord has the size of one of them
BlobsOfOneUpload ==
    (upl.count = 1 /\ upl2.count = 1)
    => \A n \in FileNodes : \A id \in DOMAIN dn[n].storage :
         \E u \in {upl, upl2} : \E k \in 0..MaxFileLen :
            /\ id = ChunkId(u.filename, k)
            /\ dn[n].storage[id] = ReadChunk(u.data, ChunkSize, k)

RecordOfOneUpload ==
    BothCompleted
    => \A filename \in DOMAIN files :
         files[filename].size \in {Len(upl.done.data), Len(upl2.done.data)}

====
